---- MODULE Spec2Model ----
(***************************************************************************)
(* Euclidean sequencer: the pattern generator (utils/euclidAlgorithm.ts)   *)
(* and the lookahead scheduler of hooks/useAudio.ts.                       *)
(*                                                                         *)
(* Spec is the running hook, and SpecLive the same hook under a fair timer *)
(* and an unbounded clock; SpecGen, SpecCycle, SpecInterval,               *)
(* SpecSchedule and SpecLoop apply the pattern generator, the cycle        *)
(* alignment, the step interval, schedule and loop to inputs drawn from    *)
(* bounded sets; SpecSink is the DrumMachine of utils/drumSounds.ts        *)
(* receiving a bounded number of calls; SpecBias applies the two variants  *)
(* of applyHalfBias01 to the same base patterns; SpecPanel is the control  *)
(* surface of the application editing the tracks.                          *)
(*                                                                         *)
(* Patterns are sequences; the code's index i is position i + 1.           *)
(* A bias is the exact fraction num/den (a record), so that bias !== 0.5   *)
(* and Math.round(hits * (1 - bias)) are computed without rounding error.  *)
(* Times are integer microseconds.                                         *)
(***************************************************************************)
EXTENDS Integers, Sequences, FiniteSets, TLC

VARIABLES
  euclid,          \* generateEuclidPattern: the call's params and result
  rot,             \* rotate: the array, the amounts applied and the result
  cycle,           \* calculateCycleLength / timeSignatureToSteps: call and result
  interval,        \* nextStep: the inputs of one interval computation and its result
  scheduled,       \* schedule: the step and tracks of one call and its trigger calls
  looped,          \* loop: the refs and closure of one run and its result
  halfBias,        \* applyHalfBias01: the array and bias of one call, and the
                   \* results of the minimal-move and the center-placement variant
  panel,           \* App and ControlPanel: the tracks, the selected track and
                   \* the last edit made on the control surface
  machine,         \* DrumMachine: once made, its maps, master gain and synth calls
  clock,           \* Tone.now()
  isReady,         \* the hook's isReady state; the DrumMachine exists iff TRUE
  props,           \* tracks and transport of the latest render
  cycleLengthRef, currentStepRef, nextTimeRef, isPlayingRef,
  timerIdRef,      \* "null", "live" (id of a pending timer) or "stale"
  currentStep,     \* the hook's currentStep state
  starts,          \* startAudio calls awaiting Tone.start(), with their closures
  timers,          \* pending setTimeout(loop) callbacks, with their closures
  prevEv,          \* history: the last step event before the latest loop run
  tickLog,         \* history: the step events of the latest loop run
  cycChanged,      \* history: cycleLengthRef changed since the last step event
  edits            \* number of control-surface edits so far

genVars == <<euclid, rot, cycle, interval, scheduled, looped, halfBias, panel,
             machine>>
schedVars == <<clock, isReady, props, cycleLengthRef, currentStepRef, nextTimeRef,
               isPlayingRef, timerIdRef, currentStep, starts, timers,
               prevEv, tickLog, cycChanged, edits>>
vars == <<euclid, rot, cycle, interval, scheduled, looped, halfBias, panel, machine,
          clock, isReady, props, cycleLengthRef, currentStepRef,
          nextTimeRef, isPlayingRef, timerIdRef, currentStep, starts, timers,
          prevEv, tickLog, cycChanged, edits>>

(***************************************************************************)
(* Bounds of the pattern-generator specification.                          *)
(***************************************************************************)
\* base patterns (bias 0.5, rotation 0) are generated for steps up to here
MaxBaseSteps == 32
\* biased and rotated patterns are generated for steps up to here
MaxSteps == 16
\* rotation amounts are drawn from -MaxRot..MaxRot
MaxRot == 17
\* arbitrary patterns fed to rotate have at most this length
MaxRotLen == 4

Neutral == [num |-> 1, den |-> 2]

\* the bias values tried: exact binary fractions of [0,1], and 0.7
Biases ==
  { [num |-> 0, den |-> 1], [num |-> 1, den |-> 8], [num |-> 1, den |-> 4],
    [num |-> 3, den |-> 8], Neutral, [num |-> 5, den |-> 8],
    [num |-> 7, den |-> 10], [num |-> 3, den |-> 4], [num |-> 1, den |-> 1] }

Max(a, b) == IF a >= b THEN a ELSE b
Min(a, b) == IF a <= b THEN a ELSE b
Abs(a) == IF a < 0 THEN -a ELSE a

\* JavaScript's a % n for n > 0: the remainder takes the sign of a
JsRem(a, n) == IF a >= 0 THEN a % n ELSE -((-a) % n)

\* the positions of the true entries of a pattern, as code indices
HitSet(p) == {i \in 0..(Len(p) - 1) : p[i + 1]}
PopCount(p) == Cardinality(HitSet(p))

(***************************************************************************)
(* utils/euclidAlgorithm.ts                                                *)
(***************************************************************************)
\* rotate taking |amount| instead of normalising a negative remainder
rotateAbs(arr, amount) ==
  LET n == Len(arr) IN
  IF n <= 0 THEN arr
  ELSE LET shift == Abs(amount) % n IN
       IF shift = 0 THEN arr
       ELSE [j \in 1..n |-> arr[CHOOSE i \in 1..n : ((i - 1 + shift) % n) + 1 = j]]

rotate(arr, amount) ==
  LET n == Len(arr) IN
  IF n <= 0 THEN arr
  ELSE LET rem == JsRem(amount, n)
           shift == IF rem < 0 THEN rem + n ELSE rem
       IN IF shift = 0 THEN arr
          ELSE [j \in 1..n |-> arr[CHOOSE i \in 1..n : ((i - 1 + shift) % n) + 1 = j]]

countHits(arr, start, len) ==
  Cardinality({i \in 0..(len - 1) : arr[start + i + 1] = 1})

distanceToNearestHit(arr, index, start, len, excludeSelf) ==
  LET dists == {Abs(idx - index) : idx \in
                  {j \in start..(start + len - 1) :
                     arr[j + 1] = 1 /\ ~(excludeSelf /\ j = index)}}
  IN IF dists = {} THEN len
     ELSE CHOOSE d \in dists : \A e \in dists : d <= e

\* the comparator of rankedHits (ascending score) and, with desc, of
\* rankedEmpties (descending score); ties by ascending index
Before(a, b, desc) ==
  IF a.score # b.score
  THEN (IF desc THEN b.score < a.score ELSE a.score < b.score)
  ELSE a.idx < b.idx

RECURSIVE SortedIdx(_, _)
SortedIdx(items, desc) ==
  IF items = {} THEN <<>>
  ELSE LET first == CHOOSE a \in items :
                      \A b \in items \ {a} : Before(a, b, desc)
       IN <<first.idx>> \o SortedIdx(items \ {first}, desc)

\* rankedHits putting the most isolated hit first
rankedHitsIsolatedFirst(arr, start, len) ==
  SortedIdx({[idx |-> j, score |-> distanceToNearestHit(arr, j, start, len, TRUE)] :
               j \in {k \in start..(start + len - 1) : arr[k + 1] = 1}}, TRUE)

rankedHits(arr, start, len) ==
  SortedIdx({[idx |-> j, score |-> distanceToNearestHit(arr, j, start, len, TRUE)] :
               j \in {k \in start..(start + len - 1) : arr[k + 1] = 1}}, FALSE)

\* rankedEmpties without the arr[idx] === 0 filter
rankedEmptiesUnfiltered(arr, start, len) ==
  SortedIdx({[idx |-> j, score |-> distanceToNearestHit(arr, j, start, len, FALSE)] :
               j \in start..(start + len - 1)}, TRUE)

rankedEmpties(arr, start, len) ==
  SortedIdx({[idx |-> j, score |-> distanceToNearestHit(arr, j, start, len, FALSE)] :
               j \in {k \in start..(start + len - 1) : arr[k + 1] = 0}}, TRUE)

\* the target taken as the share of the back half: Math.round(hits * bias01)
targetBackOf(hits, bias01) ==
  (2 * hits * bias01.num + bias01.den) \div (2 * bias01.den)

\* Math.round(hits * (1.0 - bias01)) for a bias in [0,1]: halves round up
targetFrontOf(hits, bias01) ==
  (2 * hits * (bias01.den - bias01.num) + bias01.den) \div (2 * bias01.den)

\* the loop ranking the hits and the empty positions once, before the
\* first move
moveLoopRankOnce(out, moves, sourceStart, sourceLen, destStart, destLen) ==
  LET sourceHits == rankedHits(out, sourceStart, sourceLen)
      destEmpties == rankedEmpties(out, destStart, destLen)
      made == Min(moves, Min(Len(sourceHits), Len(destEmpties)))
  IN [i \in 1..Len(out) |->
        IF \E k \in 1..made : sourceHits[k] + 1 = i THEN 0
        ELSE IF \E k \in 1..made : destEmpties[k] + 1 = i THEN 1
        ELSE out[i]]

\* the loop taking the hit to remove from the whole array
RECURSIVE moveLoopAnySource(_, _, _, _, _, _)
moveLoopAnySource(out, moves, sourceStart, sourceLen, destStart, destLen) ==
  IF moves = 0 THEN out
  ELSE LET sourceHits == rankedHits(out, 0, Len(out))
           destEmpties == rankedEmpties(out, destStart, destLen)
       IN IF Len(sourceHits) = 0 \/ Len(destEmpties) = 0 THEN out
          ELSE moveLoopAnySource([out EXCEPT ![sourceHits[1] + 1] = 0,
                                             ![destEmpties[1] + 1] = 1],
                                 moves - 1, sourceStart, sourceLen, destStart, destLen)

\* the loop of applyHalfBias01: at most `moves` single moves
RECURSIVE moveLoop(_, _, _, _, _, _)
moveLoop(out, moves, sourceStart, sourceLen, destStart, destLen) ==
  IF moves = 0 THEN out
  ELSE LET sourceHits == rankedHits(out, sourceStart, sourceLen)
           destEmpties == rankedEmpties(out, destStart, destLen)
       IN IF Len(sourceHits) = 0 \/ Len(destEmpties) = 0 THEN out
          ELSE moveLoop([out EXCEPT ![sourceHits[1] + 1] = 0,
                                    ![destEmpties[1] + 1] = 1],
                        moves - 1, sourceStart, sourceLen, destStart, destLen)

applyHalfBias01(arr, bias01) ==
  LET n == Len(arr)
      half == n \div 2
      hits == countHits(arr, 0, n)
      targetFront == targetFrontOf(hits, bias01)
      frontHits == countHits(arr, 0, half)
      toBack == frontHits > targetFront
  IN IF frontHits = targetFront THEN arr
     ELSE moveLoop(arr, Abs(frontHits - targetFront),
                   IF toBack THEN 0 ELSE half,
                   IF toBack THEN half ELSE n - half,
                   IF toBack THEN half ELSE 0,
                   IF toBack THEN n - half ELSE half)

\* centerOrder of the center-placement variant: the indices
\* start..start+len-1 by their distance from the centre start + (len-1)/2
\* (compared doubled, as integers), ties by ascending index
centerOrder(start, len) ==
  SortedIdx({[idx |-> j, score |-> Abs(2 * j - (2 * start + len - 1))] :
               j \in start..(start + len - 1)}, FALSE)

\* the center-placement variant placing the front hits up to the target
\* and dropping the hits the back half has no room for
applyHalfBias01CenterNoFallback(arr, bias01) ==
  LET n == Len(arr)
      half == n \div 2
      hits == countHits(arr, 0, n)
      frontOrder == centerOrder(0, half)
      backOrder == centerOrder(half, n - half)
      inFront == Min(Len(frontOrder), targetFrontOf(hits, bias01))
      inBack == Min(Len(backOrder), hits - inFront)
  IN [i \in 1..n |->
        IF \/ \E a \in 1..inFront : frontOrder[a] + 1 = i
           \/ \E b \in 1..inBack : backOrder[b] + 1 = i
        THEN 1 ELSE 0]

\* applyHalfBias01 of the center-placement variant: the array is rebuilt
\* with the front hits nearest the centre of the front half, the others
\* nearest the centre of the back half, and any left over on the lowest
\* free indices
applyHalfBias01Center(arr, bias01) ==
  LET n == Len(arr)
      half == n \div 2
      hits == countHits(arr, 0, n)
      frontOrder == centerOrder(0, half)
      backOrder == centerOrder(half, n - half)
      inFront == Min(Len(frontOrder), targetFrontOf(hits, bias01))
      inBack == Min(Len(backOrder), hits - inFront)
      placed == [i \in 1..n |->
                   IF \/ \E a \in 1..inFront : frontOrder[a] + 1 = i
                      \/ \E b \in 1..inBack : backOrder[b] + 1 = i
                   THEN 1 ELSE 0]
      left == hits - inFront - inBack
  IN [i \in 1..n |->
        IF placed[i] = 1 THEN 1
        ELSE IF Cardinality({j \in 1..i : placed[j] = 0}) <= left THEN 1 ELSE 0]

\* step 1 with <= in place of <
basePatternLe(steps, hits) ==
  [i \in 1..steps |-> IF JsRem((i - 1) * hits, steps) <= hits THEN 1 ELSE 0]

\* step 1 of generateEuclidPattern
basePattern(steps, hits) ==
  [i \in 1..steps |-> IF JsRem((i - 1) * hits, steps) < hits THEN 1 ELSE 0]

\* generateEuclidPattern without the hits > steps test
generateNoUpperGuard(params) ==
  LET steps == params.steps
      hits == params.hits
  IN IF steps <= 0 \/ hits < 0
     THEN [i \in 1..Max(0, steps) |-> FALSE]
     ELSE LET base == basePattern(steps, hits)
              biased == IF params.bias.num * 2 # params.bias.den
                        THEN applyHalfBias01(base, params.bias) ELSE base
              rotated == IF params.rotation # 0
                         THEN rotate(biased, params.rotation) ELSE biased
          IN [i \in 1..steps |-> rotated[i] = 1]

\* generateEuclidPattern applying the bias step also at bias 0.5
generateAlwaysBias(params) ==
  LET steps == params.steps
      hits == params.hits
  IN IF steps <= 0 \/ hits < 0 \/ hits > steps
     THEN [i \in 1..Max(0, steps) |-> FALSE]
     ELSE LET base == basePattern(steps, hits)
              biased == applyHalfBias01(base, params.bias)
              rotated == IF params.rotation # 0
                         THEN rotate(biased, params.rotation) ELSE biased
          IN [i \in 1..steps |-> rotated[i] = 1]

\* generateEuclidPattern rotating by one position too few
generateShortRotation(params) ==
  LET steps == params.steps
      hits == params.hits
  IN IF steps <= 0 \/ hits < 0 \/ hits > steps
     THEN [i \in 1..Max(0, steps) |-> FALSE]
     ELSE LET base == basePattern(steps, hits)
              biased == IF params.bias.num * 2 # params.bias.den
                        THEN applyHalfBias01(base, params.bias) ELSE base
              rotated == IF params.rotation # 0
                         THEN rotate(biased, params.rotation - 1) ELSE biased
          IN [i \in 1..steps |-> rotated[i] = 1]

\* generateEuclidPattern rotating the base pattern before the bias step
generateRotateFirst(params) ==
  LET steps == params.steps
      hits == params.hits
  IN IF steps <= 0 \/ hits < 0 \/ hits > steps
     THEN [i \in 1..Max(0, steps) |-> FALSE]
     ELSE LET base == basePattern(steps, hits)
              rotated == IF params.rotation # 0
                         THEN rotate(base, params.rotation) ELSE base
              biased == IF params.bias.num * 2 # params.bias.den
                        THEN applyHalfBias01(rotated, params.bias) ELSE rotated
          IN [i \in 1..steps |-> biased[i] = 1]

generateEuclidPattern(params) ==
  LET steps == params.steps
      hits == params.hits
  IN IF steps <= 0 \/ hits < 0 \/ hits > steps
     THEN [i \in 1..Max(0, steps) |-> FALSE]
     ELSE LET base == basePattern(steps, hits)
              biased == IF params.bias.num * 2 # params.bias.den
                        THEN applyHalfBias01(base, params.bias) ELSE base
              rotated == IF params.rotation # 0
                         THEN rotate(biased, params.rotation) ELSE biased
          IN [i \in 1..steps |-> rotated[i] = 1]

(***************************************************************************)
(* hooks/useAudio.ts: cycle alignment                                      *)
(***************************************************************************)
Digits == <<"0", "1", "2", "3", "4", "5", "6", "7", "8", "9">>
IsDigit(c) == \E d \in 1..10 : Digits[d] = c
DigitVal(c) == (CHOOSE d \in 1..10 : Digits[d] = c) - 1

\* timeSignature.split('/'): the pieces between the slashes
RECURSIVE Split(_, _)
Split(str, cur) ==
  IF str = <<>> THEN <<cur>>
  ELSE IF Head(str) = "/" THEN <<cur>> \o Split(Tail(str), <<>>)
       ELSE Split(Tail(str), Append(cur, Head(str)))

\* the value of the longest prefix of digits as <<value>>, NaN (<<>>) when
\* there is no digit
RECURSIVE DigitsPrefix(_, _, _)
DigitsPrefix(str, acc, seen) ==
  IF str # <<>> /\ IsDigit(Head(str))
  THEN DigitsPrefix(Tail(str), 10 * acc + DigitVal(Head(str)), TRUE)
  ELSE IF seen THEN <<acc>> ELSE <<>>

RECURSIVE TrimLeft(_)
TrimLeft(str) ==
  IF str # <<>> /\ Head(str) = " " THEN TrimLeft(Tail(str)) ELSE str

\* parseInt(str, 10): <<value>>, or NaN (<<>>)
parseInt(piece) ==
  LET neg(str) == str # <<>> /\ Head(str) = "-"
      signed(str) == str # <<>> /\ (Head(str) = "-" \/ Head(str) = "+")
      value(mag, negative) ==
        IF mag = <<>> THEN <<>> ELSE IF negative THEN <<-mag[1]>> ELSE mag
      parse(str) ==
        value(DigitsPrefix(IF signed(str) THEN Tail(str) ELSE str, 0, FALSE),
              neg(str))
  IN parse(TrimLeft(piece))

\* a missing second piece is undefined, which parseInt reads as a string
\* without digits; the result is <<numerator, denominator>>, or null (<<>>)
parseTimeSignature(timeSignature) ==
  LET result(numerator, denominator) ==
        IF numerator = <<>> \/ denominator = <<>> THEN <<>>
        ELSE IF denominator[1] = 0 THEN <<>>
        ELSE <<numerator[1], denominator[1]>>
      fromPieces(pieces) ==
        result(parseInt(pieces[1]),
               parseInt(IF Len(pieces) >= 2 THEN pieces[2] ELSE <<"undefined">>))
  IN fromPieces(Split(timeSignature, <<>>))

\* the implied steps without the floor of one step per beat
timeSignatureToStepsNoFloor(timeSignature) ==
  LET steps(parsed) ==
        IF parsed = <<>> THEN 16
        ELSE Max(1, parsed[1] * (IF parsed[2] < 0 THEN -1 ELSE 16 \div parsed[2]))
  IN steps(parseTimeSignature(timeSignature))

timeSignatureToSteps(timeSignature) ==
  LET stepsPerBeat(denominator) ==
        IF denominator < 0 THEN 1 ELSE Max(1, 16 \div denominator)
      steps(parsed) ==
        IF parsed = <<>> THEN 16
        ELSE Max(1, parsed[1] * stepsPerBeat(parsed[2]))
  IN steps(parseTimeSignature(timeSignature))

RECURSIVE gcdLoop(_, _)
gcdLoop(x, y) == IF y # 0 THEN gcdLoop(y, x % y) ELSE x

gcd(a, b) == LET x == gcdLoop(Abs(a), Abs(b)) IN IF x = 0 THEN 1 ELSE x

\* the product without the division by the greatest common divisor
lcmProduct(a, b) == Abs(a * b)

\* the larger of the two lengths in place of their least common multiple
lcmLarger(a, b) == Max(Abs(a), Abs(b))

lcm(a, b) == Abs(a * b) \div gcd(a, b)

RECURSIVE reduceLcm(_, _)
reduceLcm(acc, lengths) ==
  IF lengths = <<>> THEN acc ELSE reduceLcm(lcm(acc, Head(lengths)), Tail(lengths))

calculateCycleLength(tracks, timeSignature) ==
  LET trackSteps == SelectSeq([i \in 1..Len(tracks) |-> tracks[i].steps],
                              LAMBDA st : st > 0)
      signatureSteps == timeSignatureToSteps(timeSignature)
      reduce(lengths) ==
        IF Len(lengths) = 0 THEN 16 ELSE reduceLcm(Head(lengths), Tail(lengths))
  IN reduce(SelectSeq(trackSteps \o <<signatureSteps>>, LAMBDA v : v # 0))

(***************************************************************************)
(* hooks/useAudio.ts: nextStep, schedule, loop.  Times are microseconds.   *)
(* One run of loop reads Tone.now() as one value.                          *)
(***************************************************************************)
lookahead == 25000
ahead == 100000
\* the 0.001 s added to Tone.now() in schedule
epsilon == 1000
\* 60 s, in microseconds
Minute == 60000000

\* the closure a render creates for loop: schedule reads tracks, nextStep
\* reads transport.bpm and transport.swing
Closure(p) == [tracks |-> p.tracks, bpm |-> p.bpm, swing |-> p.swing]

\* the swing ratio without its bounds
swingRatioUnclamped(swing) == 3 * swing

\* the swing ratio in thousandths: (transport.swing / 100) * 0.30 is
\* 3 * swing / 1000, kept within 0..0.30
swingRatio(swing) == Max(0, Min(300, 3 * swing))

\* the interval chosen by the parity of the index after the advance
stepIntervalNewIndex(step, cl) ==
  LET bpm == Max(40, Min(300, cl.bpm))
      base == (Minute \div bpm) \div 4
      even == ((step + 1) % 2 = 0)
  IN (base * (IF even THEN 1000 + swingRatio(cl.swing)
                      ELSE 1000 - swingRatio(cl.swing))) \div 1000

\* the interval of nextStep without the bounds on the tempo
stepIntervalUnclampedTempo(step, cl) ==
  LET base == (Minute \div cl.bpm) \div 4
      even == (step % 2 = 0)
  IN (base * (IF even THEN 1000 + swingRatio(cl.swing)
                      ELSE 1000 - swingRatio(cl.swing))) \div 1000

\* the interval nextStep adds, decided by the parity of the step index
\* before it is advanced; exact for the tempi 40, 60, 120, 200 and 300
stepInterval(step, cl) ==
  LET bpm == Max(40, Min(300, cl.bpm))
      base == (Minute \div bpm) \div 4
      even == (step % 2 = 0)
  IN (base * (IF even THEN 1000 + swingRatio(cl.swing)
                      ELSE 1000 - swingRatio(cl.swing))) \div 1000

\* the time schedule passes to the sink, without the Tone.now() guard
triggerTimeUnclamped(time, now) == time

\* every call of the sink at once, at Tone.now() + 0.001
triggerTimeNow(time, now) == now + epsilon

\* the time schedule passes to the sink
triggerTime(time, now) == Max(time, now + epsilon)

\* the trigger calls of schedule in which a soloed track plays even when muted
triggerCallsSoloFirst(step, tracks, sink) ==
  LET hasSolo == \E i \in 1..Len(tracks) : tracks[i].solo
      shouldPlay(track) ==
        LET stepInPattern == step % track.steps IN
        /\ stepInPattern < Len(track.pattern)
        /\ track.pattern[stepInPattern + 1]
        /\ IF hasSolo THEN track.solo ELSE ~track.muted
      call(track) == [id |-> track.id, volume |-> [num |-> track.volume, den |-> 100]]
      calls(playing) == [k \in 1..Len(playing) |-> call(playing[k])]
  IN IF ~sink THEN <<>> ELSE calls(SelectSeq(tracks, shouldPlay))

\* the trigger calls of schedule with a triggerDrumSound that does not test
\* drumMachineRef.current
triggerCallsNoSinkTest(step, tracks, sink) ==
  LET hasSolo == \E i \in 1..Len(tracks) : tracks[i].solo
      shouldPlay(track) ==
        LET stepInPattern == step % track.steps IN
        /\ ~track.muted
        /\ stepInPattern < Len(track.pattern)
        /\ track.pattern[stepInPattern + 1]
        /\ (~hasSolo \/ track.solo)
      call(track) == [id |-> track.id, volume |-> [num |-> track.volume, den |-> 100]]
      calls(playing) == [k \in 1..Len(playing) |-> call(playing[k])]
  IN calls(SelectSeq(tracks, shouldPlay))

\* the trigger calls of schedule(step, time), in the order of tracks.forEach:
\* one per track that should play, with volume = track.volume / 100 (a
\* fraction); without a DrumMachine triggerDrumSound makes no call
triggerCalls(step, tracks, sink) ==
  LET hasSolo == \E i \in 1..Len(tracks) : tracks[i].solo
      shouldPlay(track) ==
        LET stepInPattern == step % track.steps IN
        /\ ~track.muted
        /\ stepInPattern < Len(track.pattern)
        /\ track.pattern[stepInPattern + 1]
        /\ (~hasSolo \/ track.solo)
      call(track) == [id |-> track.id, volume |-> [num |-> track.volume, den |-> 100]]
      calls(playing) == [k \in 1..Len(playing) |-> call(playing[k])]
  IN IF ~sink THEN <<>> ELSE calls(SelectSeq(tracks, shouldPlay))

\* the step event of one schedule(step, time) call
stepEvent(step, time, cl, cyc, now, sink) ==
  [step |-> step, time |-> time, t |-> triggerTime(time, now), now |-> now,
   cyc |-> cyc, bpm |-> cl.bpm, swing |-> cl.swing,
   trig |-> triggerCalls(step, cl.tracks, sink)]

\* the while loop of loop, without the events that are already late
RECURSIVE loopRunDropLate(_, _, _, _, _, _)
loopRunDropLate(step, next, cl, cyc, now, sink) ==
  IF next < now + ahead
  THEN LET rest == loopRunDropLate((step + 1) % Max(1, cyc),
                                   next + stepInterval(step, cl), cl, cyc, now, sink)
       IN IF next < now THEN rest
          ELSE [rest EXCEPT !.log = <<stepEvent(step, next, cl, cyc, now, sink)>> \o @]
  ELSE [step |-> step, next |-> next, log |-> <<>>]

\* the while loop of loop: schedule, then nextStep, until nextTimeRef is
\* ahead of the window; returns the refs and the events fired
RECURSIVE loopRun(_, _, _, _, _, _)
loopRun(step, next, cl, cyc, now, sink) ==
  IF next < now + ahead
  THEN LET rest == loopRun((step + 1) % Max(1, cyc),
                           next + stepInterval(step, cl), cl, cyc, now, sink)
       IN [rest EXCEPT !.log = <<stepEvent(step, next, cl, cyc, now, sink)>> \o @]
  ELSE [step |-> step, next |-> next, log |-> <<>>]

(***************************************************************************)
(* utils/drumSounds.ts: DrumMachine.  Gains are in units of 1/100000, so   *)
(* that baseGain * clampedVolume is exact; volumes are hundredths; a Map   *)
(* is a function whose domain is its set of keys; an omitted argument is   *)
(* the empty sequence, a given one a sequence of one value.                *)
(***************************************************************************)
DrumTypes == {"kick", "snare", "hihat", "crash", "perc", "clap"}

\* 0.0001 s, 0.01 s and 0.1 s
minGap == 100
clapGap == 10000
resetDelay == 100000

\* the gains initializeSynths gives to Tone.Gain and to baseGains
initialGain(drumType) ==
  CASE drumType = "kick" -> 90000
    [] drumType = "snare" -> 80000
    [] drumType = "hihat" -> 50000
    [] drumType = "crash" -> 20000
    [] drumType = "perc" -> 70000
    [] drumType = "clap" -> 60000

\* the state after the constructor: players holds the triggerAttackRelease
\* calls made on each synth, gains the value and the automation events of
\* each Tone.Gain
DrumMachine ==
  [players |-> [d \in DrumTypes |-> <<>>],
   gains |-> [d \in DrumTypes |-> [value |-> initialGain(d), events |-> <<>>]],
   baseGains |-> [d \in DrumTypes |-> initialGain(d)],
   lastTriggerTimes |-> <<>>,
   masterGain |-> 80000,
   disposed |-> FALSE]

\* the arguments of triggerAttackRelease in each case of the switch
release(drumType, time) ==
  CASE drumType = "kick" -> [note |-> "C1", duration |-> "8n", time |-> time]
    [] drumType = "snare" -> [note |-> "", duration |-> "8n", time |-> time]
    [] drumType = "hihat" -> [note |-> "", duration |-> "16n", time |-> time]
    [] drumType = "crash" -> [note |-> "", duration |-> "2n", time |-> time]
    [] drumType = "perc" -> [note |-> "G3", duration |-> "8n", time |-> time]
    [] drumType = "clap" -> [note |-> "", duration |-> "32n", time |-> time]

\* the times of the triggerAttackRelease calls of one hit at `now`: three
\* bursts for the clap, one call for the others
burstTimes(m, drumType, now) ==
  IF drumType = "clap"
  THEN LET first == now
           second == IF drumType \in DOMAIN m.lastTriggerTimes
                     THEN Max(first + clapGap, m.lastTriggerTimes[drumType] + minGap)
                     ELSE first + clapGap
           third == Max(second + clapGap, second + minGap)
       IN <<first, second, third>>
  ELSE <<now>>

\* gain.gain.cancelScheduledValues(now), setValueAtTime(hit, now) and
\* setValueAtTime(baseGain, now + 0.1)
automate(gain, hit, baseGain, now) ==
  [gain EXCEPT !.events = SelectSeq(@, LAMBDA e : e.time < now)
                            \o <<[value |-> hit, time |-> now],
                                 [value |-> baseGain, time |-> now + resetDelay]>>]

\* trigger recording the requested time of an id it has no synth for
triggerUnknownStamped(m, drumType, volume, time, toneNow) ==
  [m EXCEPT !.lastTriggerTimes =
     [d \in DOMAIN @ \cup {drumType} |->
        IF d = drumType THEN (IF time = <<>> THEN toneNow ELSE time[1]) ELSE @[d]]]

\* trigger passing the requested time on as it is
triggerAsRequested(m, drumType, volume, time, toneNow) ==
  LET requested == IF time = <<>> THEN toneNow ELSE time[1]
      given == IF volume = <<>> THEN 80 ELSE volume[1]
      hit(now, clampedVolume, baseGain) ==
        LET times == burstTimes(m, drumType, now) IN
        [m EXCEPT !.gains[drumType] =
                    automate(@, (baseGain * clampedVolume) \div 100, baseGain, now),
                  !.players[drumType] =
                    @ \o [k \in 1..Len(times) |-> release(drumType, times[k])],
                  !.lastTriggerTimes =
                    [d \in DOMAIN @ \cup {drumType} |->
                       IF d = drumType THEN times[Len(times)] ELSE @[d]]]
  IN IF drumType \notin DOMAIN m.players \/ drumType \notin DOMAIN m.gains THEN m
     ELSE hit(requested, Min(Max(given, 0), 100),
              IF drumType \in DOMAIN m.baseGains THEN m.baseGains[drumType]
              ELSE m.gains[drumType].value)

\* trigger scaling the gain by the volume as given
triggerUnclampedVolume(m, drumType, volume, time, toneNow) ==
  LET requested == IF time = <<>> THEN toneNow ELSE time[1]
      given == IF volume = <<>> THEN 80 ELSE volume[1]
      hit(now, clampedVolume, baseGain) ==
        LET times == burstTimes(m, drumType, now) IN
        [m EXCEPT !.gains[drumType] =
                    automate(@, (baseGain * clampedVolume) \div 100, baseGain, now),
                  !.players[drumType] =
                    @ \o [k \in 1..Len(times) |-> release(drumType, times[k])],
                  !.lastTriggerTimes =
                    [d \in DOMAIN @ \cup {drumType} |->
                       IF d = drumType THEN times[Len(times)] ELSE @[d]]]
  IN IF drumType \notin DOMAIN m.players \/ drumType \notin DOMAIN m.gains THEN m
     ELSE hit(IF drumType \in DOMAIN m.lastTriggerTimes
                 /\ requested <= m.lastTriggerTimes[drumType]
              THEN m.lastTriggerTimes[drumType] + minGap ELSE requested,
              given,
              IF drumType \in DOMAIN m.baseGains THEN m.baseGains[drumType]
              ELSE m.gains[drumType].value)

\* trigger(drumType, volume = 0.8, time?) with Tone.now() = toneNow
trigger(m, drumType, volume, time, toneNow) ==
  LET requested == IF time = <<>> THEN toneNow ELSE time[1]
      given == IF volume = <<>> THEN 80 ELSE volume[1]
      hit(now, clampedVolume, baseGain) ==
        LET times == burstTimes(m, drumType, now) IN
        [m EXCEPT !.gains[drumType] =
                    automate(@, (baseGain * clampedVolume) \div 100, baseGain, now),
                  !.players[drumType] =
                    @ \o [k \in 1..Len(times) |-> release(drumType, times[k])],
                  !.lastTriggerTimes =
                    [d \in DOMAIN @ \cup {drumType} |->
                       IF d = drumType THEN times[Len(times)] ELSE @[d]]]
  IN IF drumType \notin DOMAIN m.players \/ drumType \notin DOMAIN m.gains THEN m
     ELSE hit(IF drumType \in DOMAIN m.lastTriggerTimes
                 /\ requested <= m.lastTriggerTimes[drumType]
              THEN m.lastTriggerTimes[drumType] + minGap ELSE requested,
              Min(Max(given, 0), 100),
              IF drumType \in DOMAIN m.baseGains THEN m.baseGains[drumType]
              ELSE m.gains[drumType].value)

\* setMasterVolume(volume)
setMasterVolume(m, volume) ==
  [m EXCEPT !.masterGain = Min(Max(volume, 0), 100) * 1000]

\* dispose(): the maps are cleared
dispose(m) ==
  [m EXCEPT !.players = <<>>, !.gains = <<>>, !.baseGains = <<>>,
            !.lastTriggerTimes = <<>>, !.disposed = TRUE]

(***************************************************************************)
(* App (HANDOVER.md) and components/ControlPanel.tsx: updateTrack and the  *)
(* handlers of the control surface.  A Partial<Track> is a function whose  *)
(* domain is the set of fields given.                                      *)
(***************************************************************************)
\* the pattern updateTrack and useState give a track: that of its parameters
withPattern(track) ==
  [track EXCEPT !.pattern = generateEuclidPattern(
     [steps |-> track.steps, hits |-> track.hits,
      bias |-> track.bias, rotation |-> track.rotation])]

\* the parameters whose update regenerates the pattern
PatternFields == {"steps", "hits", "bias", "rotation"}

\* updateTrack regenerating the pattern on steps, hits and bias only
updateTrackNoRotation(tracks, trackId, updates) ==
  LET merged(track) ==
        [f \in DOMAIN track |-> IF f \in DOMAIN updates THEN updates[f] ELSE track[f]]
      updated(track) ==
        IF DOMAIN updates \cap {"steps", "hits", "bias"} # {}
        THEN withPattern(merged(track)) ELSE merged(track)
  IN [i \in 1..Len(tracks) |->
        IF tracks[i].id = trackId THEN updated(tracks[i]) ELSE tracks[i]]

\* updateTrack(trackId, updates) on the tracks of the application state
updateTrack(tracks, trackId, updates) ==
  LET merged(track) ==
        [f \in DOMAIN track |-> IF f \in DOMAIN updates THEN updates[f] ELSE track[f]]
      updated(track) ==
        IF DOMAIN updates \cap PatternFields # {}
        THEN withPattern(merged(track)) ELSE merged(track)
  IN [i \in 1..Len(tracks) |->
        IF tracks[i].id = trackId THEN updated(tracks[i]) ELSE tracks[i]]

\* initialTracks with their patterns, as useState builds them: two tracks,
\* of three and of two steps
initialTracks ==
  << [id |-> "kick", steps |-> 3, hits |-> 1, bias |-> Neutral, rotation |-> 0,
      volume |-> 70, muted |-> FALSE, solo |-> FALSE, pattern |-> <<>>],
     [id |-> "clap", steps |-> 2, hits |-> 1, bias |-> [num |-> 7, den |-> 10],
      rotation |-> 1, volume |-> 65, muted |-> FALSE, solo |-> FALSE,
      pattern |-> <<>>] >>

PanelTracks == [i \in 1..Len(initialTracks) |-> withPattern(initialTracks[i])]

\* the updates the handlers of ControlPanel pass to onUpdate
handleStepsChange(track, steps) == [steps |-> steps, hits |-> Min(track.hits, steps)]
handleHitsChange(hits) == [hits |-> hits]
handleBiasChange(bias) == [bias |-> bias]
handleRotationChange(rotation) == [rotation |-> rotation]
handleVolumeChange(volume) == [volume |-> volume]
handleMuteToggle(track) == [muted |-> ~track.muted]
handleSoloToggle(track) == [solo |-> ~track.solo]
resetSteps(track, defaultTrack) ==
  [steps |-> defaultTrack.steps, hits |-> Min(track.hits, defaultTrack.steps)]
resetHits(track, defaultTrack) == [hits |-> Min(defaultTrack.hits, track.steps)]
resetBias(defaultTrack) == [bias |-> defaultTrack.bias]
resetRotation(defaultTrack) == [rotation |-> defaultTrack.rotation]
resetVolume(defaultTrack) == [volume |-> defaultTrack.volume]

GenInit ==
  /\ euclid = [called |-> FALSE]
  /\ rot = [called |-> FALSE]
  /\ cycle = [called |-> FALSE]
  /\ interval = [called |-> FALSE]
  /\ scheduled = [called |-> FALSE]
  /\ looped = [called |-> FALSE]
  /\ halfBias = [called |-> FALSE]
  /\ panel = [tracks |-> PanelTracks, selectedTrackId |-> "kick",
              edits |-> 0, last |-> <<>>]
  /\ machine = [made |-> FALSE, calls |-> 0]

(***************************************************************************)
(* hooks/useAudio.ts: the hook.  Its refs and state are gathered in a      *)
(* record so that the effects of one render compose.                       *)
(***************************************************************************)
\* bounds of the scheduler specification
\* the clock stops advancing at MaxClock lookahead intervals
MaxClock == 8
\* control-surface edits per behaviour
MaxEdits == 1
\* startAudio continuations and timer callbacks pending at once
MaxChains == 2

TrackIds == <<"kick", "snare">>
Bpms == {120, 300}
Swings == {0, 100}
Sigs == {<<"4", "/", "4">>, <<"1", "/", "8">>}
TrackSteps == {2, 4}
\* the tracks (by position) whose sliders and buttons are operated
StepsTracks == {1}
ToggleTracks == {2}
\* the clock advances by the length of the scheduling window, or by a stall
\* of twice that
ClockSteps == {ahead, 2 * ahead}

InitTracks ==
  << withPattern([id |-> "kick", steps |-> 4, hits |-> 2, bias |-> Neutral,
                  rotation |-> 0, volume |-> 70, muted |-> FALSE, solo |-> FALSE,
                  pattern |-> <<>>]),
     withPattern([id |-> "snare", steps |-> 2, hits |-> 1, bias |-> Neutral,
                  rotation |-> 1, volume |-> 80, muted |-> FALSE, solo |-> FALSE,
                  pattern |-> <<>>]) >>

\* the props of the first render: a fast tempo with full swing and a bar of
\* two sixteenths, so that the cycle (four steps, the kick's) wraps early and
\* shrinks to two steps when the kick is cut to two steps
InitProps ==
  [tracks |-> InitTracks, bpm |-> 300, swing |-> 100,
   timeSignature |-> <<"1", "/", "8">>, isPlaying |-> FALSE]

Hook ==
  [isPlayingRef |-> isPlayingRef, currentStepRef |-> currentStepRef,
   nextTimeRef |-> nextTimeRef, timerIdRef |-> timerIdRef,
   cycleLengthRef |-> cycleLengthRef, currentStep |-> currentStep,
   starts |-> starts, timers |-> timers, prevEv |-> prevEv,
   tickLog |-> tickLog, cycChanged |-> cycChanged]

\* the refs and state of the hook after a handler; h is one value
Commit(hook) ==
  \E h \in {hook} :
  /\ isPlayingRef' = h.isPlayingRef
  /\ currentStepRef' = h.currentStepRef
  /\ nextTimeRef' = h.nextTimeRef
  /\ timerIdRef' = h.timerIdRef
  /\ cycleLengthRef' = h.cycleLengthRef
  /\ currentStep' = h.currentStep
  /\ starts' = h.starts
  /\ timers' = h.timers
  /\ prevEv' = h.prevEv
  /\ tickLog' = h.tickLog
  /\ cycChanged' = h.cycChanged

RemoveAt(seq, i) == SubSeq(seq, 1, i - 1) \o SubSeq(seq, i + 1, Len(seq))

\* loop without its setTimeout
setTimerNever(h, cl) == h

\* setTimeout(loop, lookahead * 1000) with timerIdRef.current = its id
setTimer(h, cl) ==
  [h EXCEPT !.timers = Append([k \in 1..Len(@) |-> [@[k] EXCEPT !.tracked = FALSE]],
                              [cl |-> cl, tracked |-> TRUE, delay |-> lookahead]),
            !.timerIdRef = "live"]

\* the body of loop, anchoring nextTimeRef to Tone.now() on every call
runLoopReanchor(h, cl, now, reset) ==
  LET before == IF reset \/ h.tickLog = <<>> THEN <<>>
                ELSE <<h.tickLog[Len(h.tickLog)]>>
      after(r, fired) ==
        [h EXCEPT !.currentStepRef = r.step,
                  !.nextTimeRef = r.next,
                  !.currentStep = IF fired THEN r.log[Len(r.log)].step ELSE @,
                  !.prevEv = IF fired THEN [ev |-> before, gap |-> h.cycChanged /\ ~reset]
                             ELSE IF reset THEN [ev |-> <<>>, gap |-> FALSE] ELSE @,
                  !.tickLog = IF fired \/ reset THEN r.log ELSE @,
                  !.cycChanged = IF fired \/ reset THEN FALSE ELSE @]
      ran(r) == after(r, r.log # <<>>)
  IN setTimer(ran(loopRun(h.currentStepRef, now, cl, h.cycleLengthRef, now, isReady)), cl)

\* the body of loop for a playing hook: the while loop, then the timer
runLoop(h, cl, now, reset) ==
  LET before == IF reset \/ h.tickLog = <<>> THEN <<>>
                ELSE <<h.tickLog[Len(h.tickLog)]>>
      after(r, fired) ==
        [h EXCEPT !.currentStepRef = r.step,
                  !.nextTimeRef = r.next,
                  !.currentStep = IF fired THEN r.log[Len(r.log)].step ELSE @,
                  !.prevEv = IF fired THEN [ev |-> before, gap |-> h.cycChanged /\ ~reset]
                             ELSE IF reset THEN [ev |-> <<>>, gap |-> FALSE] ELSE @,
                  !.tickLog = IF fired \/ reset THEN r.log ELSE @,
                  !.cycChanged = IF fired \/ reset THEN FALSE ELSE @]
      ran(r) == after(r, r.log # <<>>)
  IN setTimer(ran(loopRun(h.currentStepRef, h.nextTimeRef, cl, h.cycleLengthRef, now, isReady)), cl)

\* startAudio up to its await
\* startAudio without the test of isPlayingRef
startAudioUnguarded(h, p) ==
  IF ~isReady THEN h
  ELSE [h EXCEPT !.starts = Append(@, Closure(p))]

startAudio(h, p) ==
  IF h.isPlayingRef THEN h
  ELSE IF ~isReady THEN h
  ELSE [h EXCEPT !.starts = Append(@, Closure(p))]

\* stopAudio without the reset of the step index
stopAudioKeepStep(h) ==
  [h EXCEPT !.isPlayingRef = FALSE,
            !.timers = IF h.timerIdRef # "null"
                       THEN SelectSeq(@, LAMBDA tm : ~tm.tracked) ELSE @,
            !.timerIdRef = "null"]

\* stopAudio without the clearTimeout
stopAudioKeepTimer(h) ==
  [h EXCEPT !.isPlayingRef = FALSE,
            !.currentStepRef = 0,
            !.currentStep = 0]

stopAudio(h) ==
  [h EXCEPT !.isPlayingRef = FALSE,
            !.timers = IF h.timerIdRef # "null"
                       THEN SelectSeq(@, LAMBDA tm : ~tm.tracked) ELSE @,
            !.timerIdRef = "null",
            !.currentStepRef = 0,
            !.currentStep = 0]

\* the effect on [cycleLength] without the modulo on the step
cycleEffectNoClamp(h, cycleLength) ==
  LET nextCycle == Max(1, cycleLength) IN
  [h EXCEPT !.cycleLengthRef = nextCycle,
            !.cycChanged = @ \/ nextCycle # h.cycleLengthRef]

\* the effect on [cycleLength]
cycleEffect(h, cycleLength) ==
  LET nextCycle == Max(1, cycleLength) IN
  [h EXCEPT !.cycleLengthRef = nextCycle,
            !.currentStepRef = @ % nextCycle,
            !.currentStep = @ % nextCycle,
            !.cycChanged = @ \/ nextCycle # h.cycleLengthRef]

\* the effect on [transport.isPlaying, startAudio, stopAudio]
playEffect(h, p) == IF p.isPlaying THEN startAudio(h, p) ELSE stopAudio(h)

\* the effects of a render with props p: startAudio is a new function in
\* every render, so the play effect always runs
renderEffects(h, p) ==
  LET onCycleLength(cycleLength, previous) ==
        IF cycleLength # previous THEN cycleEffect(h, cycleLength) ELSE h
  IN playEffect(onCycleLength(calculateCycleLength(p.tracks, p.timeSignature),
                              calculateCycleLength(props.tracks, props.timeSignature)),
                p)

ChainsOk(h) == Len(h.starts) + Len(h.timers) <= MaxChains

Render(p) ==
  LET commit(h) == ChainsOk(h) /\ Commit(h) IN
  /\ commit(renderEffects(Hook, p))
  /\ props' = p
  /\ UNCHANGED <<clock, isReady, genVars>>

SchedInit ==
  /\ clock = 0
  /\ isReady \in BOOLEAN
  /\ props = InitProps
  /\ cycleLengthRef = Max(1, calculateCycleLength(props.tracks, props.timeSignature))
  /\ currentStepRef = 0
  /\ nextTimeRef = 0
  /\ isPlayingRef = FALSE
  /\ timerIdRef = "null"
  /\ currentStep = 0
  /\ starts = <<>>
  /\ timers = <<>>
  /\ prevEv = [ev |-> <<>>, gap |-> FALSE]
  /\ tickLog = <<>>
  /\ cycChanged = FALSE
  /\ edits = 0

\* TransportBar: the play button
TogglePlaying ==
  /\ Render([props EXCEPT !.isPlaying = ~@])
  /\ UNCHANGED edits

\* TransportBar: tempo, swing and time signature
SetBpm ==
  /\ edits < MaxEdits
  /\ \E b \in Bpms \ {props.bpm} : Render([props EXCEPT !.bpm = b])
  /\ edits' = edits + 1

SetSwing ==
  /\ edits < MaxEdits
  /\ \E sw \in Swings \ {props.swing} : Render([props EXCEPT !.swing = sw])
  /\ edits' = edits + 1

SetTimeSignature ==
  /\ edits < MaxEdits
  /\ \E sig \in Sigs \ {props.timeSignature} :
       Render([props EXCEPT !.timeSignature = sig])
  /\ edits' = edits + 1

\* ControlPanel: steps (hits capped), mute and solo of one track
SetSteps ==
  /\ edits < MaxEdits
  /\ \E i \in StepsTracks : \E st \in TrackSteps \ {props.tracks[i].steps} :
       Render([props EXCEPT !.tracks[i] =
                 withPattern([@ EXCEPT !.steps = st, !.hits = Min(@, st)])])
  /\ edits' = edits + 1

ToggleMute ==
  /\ edits < MaxEdits
  /\ \E i \in ToggleTracks :
       Render([props EXCEPT !.tracks[i].muted = ~@])
  /\ edits' = edits + 1

ToggleSolo ==
  /\ edits < MaxEdits
  /\ \E i \in ToggleTracks :
       Render([props EXCEPT !.tracks[i].solo = ~@])
  /\ edits' = edits + 1

\* a render with unchanged props (the parent or the hook's own state changed)
Rerender ==
  /\ Render(props)
  /\ UNCHANGED edits

\* Tone.start() resolves: the rest of startAudio, with its call of loop
StartResume ==
  \E i \in 1..Len(starts) :
    LET h0 == [Hook EXCEPT !.starts = RemoveAt(@, i),
                           !.isPlayingRef = TRUE,
                           !.currentStepRef = @ % Max(1, cycleLengthRef),
                           !.nextTimeRef = clock]
    IN /\ Commit(runLoop(h0, starts[i], clock, TRUE))
       /\ UNCHANGED <<clock, isReady, props, edits, genVars>>

\* Tone.start() rejects: the catch block only logs
StartFail ==
  \E i \in 1..Len(starts) :
    /\ Commit([Hook EXCEPT !.starts = RemoveAt(@, i)])
    /\ UNCHANGED <<clock, isReady, props, edits, genVars>>

\* a timer callback whose loop does not test isPlayingRef
TickUnguarded ==
  \E i \in 1..Len(timers) :
    LET h0 == [Hook EXCEPT !.timers = RemoveAt(@, i),
                           !.timerIdRef = IF timers[i].tracked THEN "stale" ELSE @]
    IN /\ Commit(runLoop(h0, timers[i].cl, clock, FALSE))
       /\ UNCHANGED <<clock, isReady, props, edits, genVars>>

\* a pending timer fires loop
Tick ==
  \E i \in 1..Len(timers) :
    LET h0 == [Hook EXCEPT !.timers = RemoveAt(@, i),
                           !.timerIdRef = IF timers[i].tracked THEN "stale" ELSE @]
    IN /\ Commit(IF ~isPlayingRef THEN h0
                 ELSE runLoop(h0, timers[i].cl, clock, FALSE))
       /\ UNCHANGED <<clock, isReady, props, edits, genVars>>

\* the audio clock advances
Advance ==
  \E d \in ClockSteps :
    /\ clock + d <= MaxClock * lookahead
    /\ clock' = clock + d
    /\ UNCHANGED <<isReady, props, cycleLengthRef, currentStepRef, nextTimeRef,
                   isPlayingRef, timerIdRef, currentStep, starts, timers,
                   prevEv, tickLog, cycChanged, edits, genVars>>

Next ==
  \/ TogglePlaying \/ SetBpm \/ SetSwing \/ SetTimeSignature
  \/ SetSteps \/ ToggleMute \/ ToggleSolo \/ Rerender
  \/ StartResume \/ StartFail
  \/ Tick \/ Advance

Init == GenInit /\ SchedInit

Spec == Init /\ [][Next]_vars

(***************************************************************************)
(* The running hook under a fair timer and a clock that advances without   *)
(* bound.  The code only compares its times with Tone.now(), so here the   *)
(* clock stays the origin of the time axis and its advance by d lowers     *)
(* every stored time by d; a pending timer fires before nextTimeRef is     *)
(* more than MaxLate windows behind the clock.                             *)
(***************************************************************************)
\* the lateness of a tick, in scheduling windows
MaxLate == 2

shiftEvent(e, d) == [e EXCEPT !.time = @ - d, !.t = @ - d, !.now = @ - d]

\* the audio clock advances by d
Elapse ==
  \E d \in ClockSteps :
    /\ nextTimeRef - d >= -(MaxLate * ahead)
    /\ nextTimeRef' = nextTimeRef - d
    /\ tickLog' = [k \in 1..Len(tickLog) |-> shiftEvent(tickLog[k], d)]
    /\ prevEv' = [prevEv EXCEPT
                    !.ev = [k \in 1..Len(@) |-> shiftEvent(@[k], d)]]
    /\ UNCHANGED <<clock, isReady, props, cycleLengthRef, currentStepRef,
                   isPlayingRef, timerIdRef, currentStep, starts, timers,
                   cycChanged, edits, genVars>>

NextLive ==
  \/ TogglePlaying
  \/ StartResume
  \/ Tick \/ Elapse

\* setTimeout runs every callback it was given and Tone.now() keeps growing
SpecLive == Init /\ [][NextLive]_vars /\ WF_vars(Tick) /\ WF_vars(Elapse)

(***************************************************************************)
(* The pattern-generator specification: the two exported/inner pure        *)
(* functions applied to inputs drawn from bounded sets.                    *)
(***************************************************************************)
RotLens == 1..MaxRotLen
RotAmounts == (-MaxRot)..MaxRot
BitSeqs(n) == [1..n -> {0, 1}]

\* each behaviour evaluates one function on one input
Idle == ~euclid.called /\ ~rot.called

\* generate(steps, hits, 0.5, 0) over the whole UI range of steps
GenerateBase ==
  /\ Idle
  /\ \E s \in 1..MaxBaseSteps, h \in 0..MaxBaseSteps :
    /\ h <= s
    /\ LET p == [steps |-> s, hits |-> h, bias |-> Neutral, rotation |-> 0]
       IN euclid' = [called |-> TRUE, params |-> p, out |-> generateEuclidPattern(p)]
    /\ UNCHANGED <<rot, cycle, interval, scheduled, looped, machine, halfBias, panel, schedVars>>

\* generate on any parameters, the degenerate ones included
Generate ==
  /\ Idle
  /\ \E s \in (-2)..MaxSteps, h \in (-1)..(MaxSteps + 1), b \in Biases, r \in RotAmounts :
    /\ LET p == [steps |-> s, hits |-> h, bias |-> b, rotation |-> r]
       IN euclid' = [called |-> TRUE, params |-> p, out |-> generateEuclidPattern(p)]
    /\ UNCHANGED <<rot, cycle, interval, scheduled, looped, machine, halfBias, panel, schedVars>>

\* rotate applied to an arbitrary 0/1 array
RotateFirst ==
  /\ Idle
  /\ \E n \in RotLens : \E p \in BitSeqs(n) : \E a \in RotAmounts :
    /\ rot' = [called |-> TRUE, p |-> p, amounts |-> <<a>>, out |-> rotate(p, a)]
    /\ UNCHANGED <<euclid, cycle, interval, scheduled, looped, machine, halfBias, panel, schedVars>>

\* rotate applied to the result of a previous rotate
RotateAgain ==
  /\ rot.called
  /\ Len(rot.amounts) = 1
  /\ \E b \in RotAmounts :
       rot' = [rot EXCEPT !.amounts = Append(@, b), !.out = rotate(@, b)]
  /\ UNCHANGED <<euclid, cycle, interval, scheduled, looped, machine, halfBias, panel, schedVars>>

NextGen == GenerateBase \/ Generate \/ RotateFirst \/ RotateAgain

\* the scheduler is left in one initial state
InitGen == Init /\ isReady

SpecGen == InitGen /\ [][NextGen]_vars

(***************************************************************************)
(* The cycle-alignment specification: timeSignatureToSteps and             *)
(* calculateCycleLength applied to inputs drawn from bounded sets.  A      *)
(* signature is written out as the characters the parser reads.            *)
(***************************************************************************)
\* numerators and denominators range over -2..MaxSigPart
MaxSigPart == 17
\* track lists have up to MaxCycleTracks tracks (and the six-track reference)
MaxCycleTracks == 3

SigParts == (-2)..MaxSigPart
\* the shapes of the signature text: N and D are integers, x is a letter
SigKinds == {"N/D", " N/D", "Nx/D", "N/Dx", "N/D/N", "N", "N/", "x/D", "N/x"}

\* the decimal digits of a number, as String(n) writes them
RECURSIVE FormatNat(_)
FormatNat(n) ==
  IF n < 10 THEN <<Digits[n + 1]>>
  ELSE Append(FormatNat(n \div 10), Digits[(n % 10) + 1])

FormatInt(n) == IF n < 0 THEN <<"-">> \o FormatNat(-n) ELSE FormatNat(n)

FormatSig(kind, n, d) ==
  CASE kind = "N/D" -> FormatInt(n) \o <<"/">> \o FormatInt(d)
    [] kind = " N/D" -> <<" ">> \o FormatInt(n) \o <<"/", " ">> \o FormatInt(d)
    [] kind = "Nx/D" -> FormatInt(n) \o <<"x", "/">> \o FormatInt(d)
    [] kind = "N/Dx" -> FormatInt(n) \o <<"/">> \o FormatInt(d) \o <<"x">>
    [] kind = "N/D/N" -> FormatInt(n) \o <<"/">> \o FormatInt(d) \o <<"/">> \o FormatInt(n)
    [] kind = "N" -> FormatInt(n)
    [] kind = "N/" -> FormatInt(n) \o <<"/">>
    [] kind = "x/D" -> <<"x", "/">> \o FormatInt(d)
    [] kind = "N/x" -> FormatInt(n) \o <<"/", "x">>

\* step counts of the tracks handed to calculateCycleLength
CycleSteps == {-1, 0, 3, 8, 16}
SixSixteens == <<16, 16, 16, 16, 16, 16>>
StepLists ==
  {SixSixteens} \cup
  UNION {[1..k -> CycleSteps] : k \in 0..MaxCycleTracks}
\* the signatures of the transport bar, one more, and two that do not parse
CycleSigs == {<<"N/D", 4, 4>>, <<"N/D", 3, 4>>, <<"N/D", 5, 4>>, <<"N/D", 7, 4>>,
              <<"N/D", 7, 8>>, <<"N/D", 4, 0>>, <<"x/D", 4, 4>>}

\* timeSignatureToSteps(sig)
ImpliedSteps ==
  /\ ~cycle.called
  /\ \E kind \in SigKinds, n \in SigParts, d \in SigParts :
       cycle' = [called |-> TRUE, fn |-> "timeSignatureToSteps",
                 kind |-> kind, n |-> n, d |-> d, steps |-> <<>>,
                 out |-> timeSignatureToSteps(FormatSig(kind, n, d))]
  /\ UNCHANGED <<euclid, rot, interval, scheduled, looped, machine, halfBias, panel, schedVars>>

\* calculateCycleLength(tracks, sig)
CycleLength ==
  /\ ~cycle.called
  /\ \E steps \in StepLists, sig \in CycleSigs :
       cycle' = [called |-> TRUE, fn |-> "calculateCycleLength",
                 kind |-> sig[1], n |-> sig[2], d |-> sig[3], steps |-> steps,
                 out |-> calculateCycleLength(
                           [i \in 1..Len(steps) |-> [steps |-> steps[i]]],
                           FormatSig(sig[1], sig[2], sig[3]))]
  /\ UNCHANGED <<euclid, rot, interval, scheduled, looped, machine, halfBias, panel, schedVars>>

NextCycle == ImpliedSteps \/ CycleLength

SpecCycle == InitGen /\ [][NextCycle]_vars

(***************************************************************************)
(* The step-interval specification: the interval nextStep adds, for tempo  *)
(* and swing values inside and outside their ranges.                       *)
(***************************************************************************)
\* the step indices the interval is computed at are 0..MaxIntervalStep
MaxIntervalStep == 3
IntervalBpms == {-60, 0, 39, 40, 60, 120, 200, 300, 301, 600}
IntervalSwings == {-50, 0, 30, 50, 100, 101, 250}

\* the interval of nextStep with currentStepRef = step
ComputeInterval ==
  /\ ~interval.called
  /\ \E b \in IntervalBpms, sw \in IntervalSwings, step \in 0..MaxIntervalStep :
       interval' = [called |-> TRUE, bpm |-> b, swing |-> sw, step |-> step,
                    out |-> stepInterval(step, [bpm |-> b, swing |-> sw])]
  /\ UNCHANGED <<euclid, rot, cycle, scheduled, looped, machine, halfBias, panel, schedVars>>

NextInterval == ComputeInterval

SpecInterval == InitGen /\ [][NextInterval]_vars

(***************************************************************************)
(* The schedule specification: the trigger calls of one schedule(step,     *)
(* time) call, for every combination of mute and solo on three tracks.     *)
(***************************************************************************)
\* schedule is called with the steps 0..MaxScheduleStep
MaxScheduleStep == 7
ScheduleVolumes == {0, 70, 100}

\* three tracks of 4, 2 and 3 steps with the flags and the volume given
ScheduleTracks(muted, solo, volume) ==
  << withPattern([id |-> "kick", steps |-> 4, hits |-> 2, bias |-> Neutral,
                  rotation |-> 0, volume |-> volume, muted |-> muted[1],
                  solo |-> solo[1], pattern |-> <<>>]),
     withPattern([id |-> "snare", steps |-> 2, hits |-> 1, bias |-> Neutral,
                  rotation |-> 1, volume |-> 80, muted |-> muted[2],
                  solo |-> solo[2], pattern |-> <<>>]),
     withPattern([id |-> "hihat", steps |-> 3, hits |-> 2, bias |-> Neutral,
                  rotation |-> 0, volume |-> 60, muted |-> muted[3],
                  solo |-> solo[3], pattern |-> <<>>]) >>

\* schedule(step, time) with a DrumMachine (sink) or without one
Schedule ==
  /\ ~scheduled.called
  /\ \E step \in 0..MaxScheduleStep, muted \in [1..3 -> BOOLEAN],
        solo \in [1..3 -> BOOLEAN], volume \in ScheduleVolumes, sink \in BOOLEAN :
       scheduled' = [called |-> TRUE, step |-> step, sink |-> sink,
                     tracks |-> ScheduleTracks(muted, solo, volume),
                     calls |-> triggerCalls(step, ScheduleTracks(muted, solo, volume), sink)]
  /\ UNCHANGED <<euclid, rot, cycle, interval, looped, machine, halfBias, panel, schedVars>>

NextSchedule == Schedule

SpecSchedule == InitGen /\ [][NextSchedule]_vars

(***************************************************************************)
(* The bias specification: step 2 of generateEuclidPattern applied to the  *)
(* base pattern by the minimal-move applyHalfBias01 and by the             *)
(* center-placement applyHalfBias01 it superseded.                         *)
(***************************************************************************)
\* base patterns of 1..MaxBiasSteps steps
MaxBiasSteps == 16

ApplyBias ==
  /\ ~halfBias.called
  /\ \E steps \in 1..MaxBiasSteps, bias \in Biases :
       \E hits \in 0..steps :
         LET arr == basePattern(steps, hits) IN
         halfBias' = [called |-> TRUE, arr |-> arr, bias |-> bias,
                    minimal |-> IF bias.num * 2 # bias.den
                                THEN applyHalfBias01(arr, bias) ELSE arr,
                    center |-> IF bias.num * 2 # bias.den
                               THEN applyHalfBias01Center(arr, bias) ELSE arr]
  /\ UNCHANGED <<euclid, rot, cycle, interval, scheduled, looped, machine, panel, schedVars>>

NextBias == ApplyBias

SpecBias == InitGen /\ [][NextBias]_vars

(***************************************************************************)
(* The control-surface specification: up to MaxPanelEdits edits of the     *)
(* selected track through the sliders, buttons and double-click resets of  *)
(* ControlPanel, and selections of the other track.                        *)
(***************************************************************************)
\* the steps slider ranges over 1..MaxPanelSteps
MaxPanelSteps == 3
\* edits per behaviour
MaxPanelEdits == 3
\* positions of the bias and volume sliders
PanelBiases == {[num |-> 0, den |-> 1], Neutral, [num |-> 1, den |-> 1]}
PanelVolumes == {0, 100}

\* selectedTrack and selectedDefaultTrack of App
selectedTrack ==
  CHOOSE t \in {panel.tracks[i] : i \in 1..Len(panel.tracks)} :
    t.id = panel.selectedTrackId
selectedDefaultTrack ==
  CHOOSE t \in {initialTracks[i] : i \in 1..Len(initialTracks)} :
    t.id = panel.selectedTrackId

\* onUpdate(updates) from the handler named
Edit(handler, updates) ==
  /\ panel.edits < MaxPanelEdits
  /\ panel' = [panel EXCEPT
                 !.tracks = updateTrack(@, panel.selectedTrackId, updates),
                 !.edits = @ + 1,
                 !.last = <<[handler |-> handler, tracks |-> panel.tracks]>>]
  /\ UNCHANGED <<euclid, rot, cycle, interval, scheduled, looped, halfBias, machine, schedVars>>

StepsChange ==
  \E steps \in 1..MaxPanelSteps :
    Edit("handleStepsChange", handleStepsChange(selectedTrack, steps))
HitsChange ==
  \E hits \in 0..selectedTrack.steps :
    Edit("handleHitsChange", handleHitsChange(hits))
BiasChange ==
  \E bias \in PanelBiases : Edit("handleBiasChange", handleBiasChange(bias))
RotationChange ==
  \E rotation \in (-selectedTrack.steps)..selectedTrack.steps :
    Edit("handleRotationChange", handleRotationChange(rotation))
VolumeChange ==
  \E volume \in PanelVolumes : Edit("handleVolumeChange", handleVolumeChange(volume))
MuteToggle == Edit("handleMuteToggle", handleMuteToggle(selectedTrack))
SoloToggle == Edit("handleSoloToggle", handleSoloToggle(selectedTrack))
ResetSteps == Edit("resetSteps", resetSteps(selectedTrack, selectedDefaultTrack))
ResetHits == Edit("resetHits", resetHits(selectedTrack, selectedDefaultTrack))
ResetBias == Edit("resetBias", resetBias(selectedDefaultTrack))
ResetRotation == Edit("resetRotation", resetRotation(selectedDefaultTrack))
ResetVolume == Edit("resetVolume", resetVolume(selectedDefaultTrack))

\* handleTrackSelect: a click on the circle of another track
TrackSelect ==
  /\ \E i \in 1..Len(panel.tracks) :
       /\ panel.tracks[i].id # panel.selectedTrackId
       /\ panel' = [panel EXCEPT !.selectedTrackId = panel.tracks[i].id]
  /\ UNCHANGED <<euclid, rot, cycle, interval, scheduled, looped, halfBias, machine, schedVars>>

NextPanel ==
  \/ StepsChange \/ HitsChange \/ BiasChange \/ RotationChange
  \/ VolumeChange \/ MuteToggle \/ SoloToggle
  \/ ResetSteps \/ ResetHits \/ ResetBias \/ ResetRotation \/ ResetVolume
  \/ TrackSelect

SpecPanel == InitGen /\ [][NextPanel]_vars

(***************************************************************************)
(* The loop specification: one run of the while loop of loop, punctual or  *)
(* late, with a DrumMachine (sink) or without one.                         *)
(***************************************************************************)
\* the cycle lengths 1..MaxLoopCycle
MaxLoopCycle == 4
\* nextTimeRef relative to Tone.now(): two windows late, due now, due within
\* the window, and beyond it
LoopOffsets == {-2 * ahead, 0, ahead \div 2, ahead}
LoopNows == {0, ahead}
\* tempo and swing as in the running hook, and one value of each above its
\* range
LoopBpms == Bpms \cup {600}
LoopSwings == Swings \cup {250}

RunLoop ==
  /\ ~looped.called
  /\ \E cyc \in 1..MaxLoopCycle, bpm \in LoopBpms, swing \in LoopSwings,
        now \in LoopNows, offset \in LoopOffsets, sink \in BOOLEAN :
       \E step \in 0..(cyc - 1) :
         LET cl == [tracks |-> InitTracks, bpm |-> bpm, swing |-> swing] IN
         looped' = [called |-> TRUE, step |-> step, next |-> now + offset,
                    cl |-> cl, cyc |-> cyc, now |-> now, sink |-> sink,
                    out |-> loopRun(step, now + offset, cl, cyc, now, sink)]
  /\ UNCHANGED <<euclid, rot, cycle, interval, scheduled, machine, halfBias, panel, schedVars>>

NextLoop == RunLoop

SpecLoop == InitGen /\ [][NextLoop]_vars

(***************************************************************************)
(* The sound-sink specification: a DrumMachine is constructed and receives *)
(* up to MaxCalls calls with drum types, volumes and times drawn from      *)
(* bounded sets.                                                           *)
(***************************************************************************)
\* calls of the DrumMachine per behaviour
MaxCalls == 2

\* the six drum types and an id the machine does not know
TriggerIds == DrumTypes \cup {"unknown"}
\* hit and master volumes in hundredths, below, in and above 0..1
HitVolumes == {-50, 70, 150}
MasterVolumes == {-10, 50, 150}
\* requested times and readings of Tone.now(): equal, earlier and later
\* ones, within and beyond the bursts of a clap
TriggerTimes == {0, 10000, 20100}

called(sink, input) ==
  [made |-> TRUE, sink |-> sink, calls |-> machine.calls + 1, last |-> input]

\* new DrumMachine()
Construct ==
  /\ ~machine.made
  /\ machine' = [made |-> TRUE, sink |-> DrumMachine, calls |-> 0,
                  last |-> [op |-> "constructor"]]
  /\ UNCHANGED <<euclid, rot, cycle, interval, scheduled, looped, halfBias, panel, schedVars>>

\* trigger(drumType, volume, time), as schedule calls it
Trigger ==
  /\ machine.made
  /\ machine.calls < MaxCalls
  /\ \E drumType \in TriggerIds, volume \in HitVolumes, time \in TriggerTimes :
       machine' = called(trigger(machine.sink, drumType, <<volume>>, <<time>>, 0),
                         [op |-> "trigger", drumType |-> drumType,
                          volume |-> <<volume>>, time |-> <<time>>, now |-> 0])
  /\ UNCHANGED <<euclid, rot, cycle, interval, scheduled, looped, halfBias, panel, schedVars>>

\* trigger(drumType) with the default volume, at Tone.now()
TriggerNow ==
  /\ machine.made
  /\ machine.calls < MaxCalls
  /\ \E drumType \in TriggerIds, now \in TriggerTimes :
       machine' = called(trigger(machine.sink, drumType, <<>>, <<>>, now),
                         [op |-> "trigger", drumType |-> drumType,
                          volume |-> <<>>, time |-> <<>>, now |-> now])
  /\ UNCHANGED <<euclid, rot, cycle, interval, scheduled, looped, halfBias, panel, schedVars>>

SetMasterVolume ==
  /\ machine.made
  /\ machine.calls < MaxCalls
  /\ \E volume \in MasterVolumes :
       machine' = called(setMasterVolume(machine.sink, volume),
                         [op |-> "setMasterVolume", volume |-> volume])
  /\ UNCHANGED <<euclid, rot, cycle, interval, scheduled, looped, halfBias, panel, schedVars>>

Dispose ==
  /\ machine.made
  /\ machine.calls < MaxCalls
  /\ ~machine.sink.disposed
  /\ machine' = called(dispose(machine.sink), [op |-> "dispose"])
  /\ UNCHANGED <<euclid, rot, cycle, interval, scheduled, looped, halfBias, panel, schedVars>>

NextSink == Construct \/ Trigger \/ TriggerNow \/ SetMasterVolume \/ Dispose

SpecSink == InitGen /\ [][NextSink]_vars

(***************************************************************************)
(* Properties of the pattern generator (checked under SpecGen).            *)
(***************************************************************************)
ValidParams(p) == p.steps >= 1 /\ 0 <= p.hits /\ p.hits <= p.steps
AllFalse(n) == [i \in 1..n |-> FALSE]

\* C5: generate(steps, hits, 0.5, 0) has length steps and exactly hits true
\* entries, and entry i is true iff (i * hits) mod steps < hits.
C5_BasePattern ==
  (euclid.called /\ ValidParams(euclid.params)
     /\ euclid.params.bias = Neutral /\ euclid.params.rotation = 0)
  => LET p == euclid.params IN
     /\ Len(euclid.out) = p.steps
     /\ PopCount(euclid.out) = p.hits
     /\ \A i \in 0..(p.steps - 1) :
          euclid.out[i + 1] = (((i * p.hits) % p.steps) < p.hits)

C5_Witness ==
  /\ euclid.called
  /\ euclid.params = [steps |-> 32, hits |-> 13, bias |-> Neutral, rotation |-> 0]
  /\ PopCount(euclid.out) = 13

\* C6: for valid (steps, hits), every bias in [0,1] and every rotation the
\* generated pattern has length steps and exactly hits true entries.
C6_HitCountPreserved ==
  (euclid.called /\ ValidParams(euclid.params))
  => /\ Len(euclid.out) = euclid.params.steps
     /\ PopCount(euclid.out) = euclid.params.hits

\* the case of the repository's test (8, 3, 0.7, 2), where the bias step
\* has moved a hit
C6_Witness ==
  /\ euclid.called
  /\ euclid.params = [steps |-> 8, hits |-> 3,
                      bias |-> [num |-> 7, den |-> 10], rotation |-> 2]
  /\ applyHalfBias01(basePattern(8, 3), euclid.params.bias) # basePattern(8, 3)
  /\ PopCount(euclid.out) = 3

\* C7: degenerate parameters (steps <= 0, hits < 0 or hits > steps) give the
\* all-false sequence of length max(0, steps), whatever bias and rotation.
C7_Degenerate ==
  (euclid.called /\ ~ValidParams(euclid.params))
  => euclid.out = AllFalse(Max(0, euclid.params.steps))

C7_Witness ==
  /\ euclid.called
  /\ euclid.params.steps = 4 /\ euclid.params.hits = 5
  /\ euclid.params.bias # Neutral /\ euclid.params.rotation # 0
  /\ euclid.out = <<FALSE, FALSE, FALSE, FALSE>>

\* C8: at bias 0.5 the generated pattern is the base Euclidean pattern (entry
\* i set iff (i * hits) mod steps < hits, which is generate(steps, hits, 0.5, 0)
\* by C5) circularly shifted by rotation: entry i moves to
\* (i + rotation) mod steps.
C8_NeutralBiasNoOp ==
  (euclid.called /\ ValidParams(euclid.params) /\ euclid.params.bias = Neutral)
  => LET p == euclid.params
         base == basePattern(p.steps, p.hits)
     IN /\ Len(euclid.out) = p.steps
        /\ \A i \in 0..(p.steps - 1) :
             euclid.out[((i + p.rotation) % p.steps) + 1] = (base[i + 1] = 1)

\* a neutral bias on a base pattern that the bias step would change, with a
\* negative rotation
C8_Witness ==
  /\ euclid.called
  /\ euclid.params = [steps |-> 5, hits |-> 3, bias |-> Neutral, rotation |-> -2]
  /\ applyHalfBias01(basePattern(5, 3), Neutral) # basePattern(5, 3)
  /\ HitSet(euclid.out) = {0, 2, 3}

\* C9: rotate(rotate(p, a), b) = rotate(p, (a + b) mod steps) for all
\* integers a and b, and rotate(p, steps) = p.
C9_RotationGroupAction ==
  rot.called
  => LET n == Len(rot.p) IN
     /\ Len(rot.amounts) = 2
          => rot.out = rotate(rot.p, (rot.amounts[1] + rot.amounts[2]) % n)
     /\ (Len(rot.amounts) = 1 /\ rot.amounts[1] = n) => rot.out = rot.p

C9_Witness ==
  /\ rot.called
  /\ rot.p = <<1, 0, 0, 0>>
  /\ rot.amounts = <<-3, 5>>
  /\ rot.out = <<0, 0, 1, 0>>

\* C10: generate(16, 4, 0.5, 0) has its hits at {0,4,8,12} and
\* generate(16, 2, 0.5, 4) has its hits at {4,12}.
C10_ReferencePatterns ==
  euclid.called
  => /\ euclid.params = [steps |-> 16, hits |-> 4, bias |-> Neutral, rotation |-> 0]
          => (Len(euclid.out) = 16 /\ HitSet(euclid.out) = {0, 4, 8, 12})
     /\ euclid.params = [steps |-> 16, hits |-> 2, bias |-> Neutral, rotation |-> 4]
          => (Len(euclid.out) = 16 /\ HitSet(euclid.out) = {4, 12})

C10_Witness ==
  /\ euclid.called
  /\ euclid.params = [steps |-> 16, hits |-> 2, bias |-> Neutral, rotation |-> 4]
  /\ euclid.out[5] /\ euclid.out[13]

\* a call with valid params and a bias other than 0.5 whose rotation leaves
\* the pattern as the bias step made it
Unrotated ==
  /\ euclid.called /\ ValidParams(euclid.params)
  /\ euclid.params.bias # Neutral
  /\ euclid.params.rotation % euclid.params.steps = 0

\* the number of true entries among the floor(steps/2) lowest indices
FrontCount(p) == Cardinality({i \in HitSet(p) : i < Len(p) \div 2})

\* Math.round(hits * (1 - bias)), from the fraction
RoundedTarget(params) ==
  CHOOSE t \in 0..params.hits :
    LET x2 == 2 * params.hits * (params.bias.den - params.bias.num)
        d2 == 2 * params.bias.den
    IN t * d2 <= x2 + params.bias.den /\ x2 + params.bias.den < (t + 1) * d2

\* C27 as stated: the front half of the bias-adjusted pattern holds exactly
\* round(hits * (1 - bias)) hits; all of them at bias 0, none at bias 1.
C27_FrontHalfTarget ==
  Unrotated =>
    LET p == euclid.params IN
    /\ FrontCount(euclid.out) = RoundedTarget(p)
    /\ p.bias.num = 0 => FrontCount(euclid.out) = p.hits
    /\ p.bias.num = p.bias.den => FrontCount(euclid.out) = 0

\* C27: the front half of the bias-adjusted pattern holds
\* round(hits * (1 - bias)) hits, brought into the range the halves leave
\* room for: at most floor(steps/2), and at least the hits the back half
\* (steps - floor(steps/2) positions) cannot hold; so at bias 0 the front
\* half holds min(hits, floor(steps/2)) hits and at bias 1 it holds
\* max(0, hits - (steps - floor(steps/2))).
C27_FrontHalfClampedTarget ==
  Unrotated =>
    LET p == euclid.params
        half == p.steps \div 2
        least == IF p.hits > p.steps - half THEN p.hits - (p.steps - half) ELSE 0
        most == IF p.hits < half THEN p.hits ELSE half
        target == RoundedTarget(p)
    IN /\ FrontCount(euclid.out) =
            IF target < least THEN least ELSE IF target > most THEN most ELSE target
       /\ p.bias.num = 0 => FrontCount(euclid.out) = most
       /\ p.bias.num = p.bias.den => FrontCount(euclid.out) = least

\* 16 steps, 8 hits, bias 0.25: the base pattern has 4 hits in each half,
\* the result 6 in the front half and 2 in the back half
C27_Witness ==
  /\ Unrotated
  /\ euclid.params.steps = 16 /\ euclid.params.hits = 8
  /\ euclid.params.bias = [num |-> 1, den |-> 4]
  /\ FrontCount(euclid.out) = 6 /\ PopCount(euclid.out) = 8

\* step 1 of the call, as a pattern
BaseOf(params) ==
  [i \in 1..params.steps |-> basePattern(params.steps, params.hits)[i] = 1]

\* the true positions of a pattern in its front half (floor(steps/2) lowest
\* indices) and in its back half
FrontHits(p) == {i \in HitSet(p) : i < Len(p) \div 2}
BackHits(p) == {i \in HitSet(p) : i >= Len(p) \div 2}

\* C28: the bias-adjusted pattern has the hits of the base pattern in
\* number; the half whose count went down kept none but base hits and the
\* half whose count went up kept all its base hits; and the positions at
\* which the two patterns differ are twice as many as the front half's hit
\* count changed by (none when it did not change).
C28_MinimalMoves ==
  Unrotated =>
    LET base == BaseOf(euclid.params)
        out == euclid.out
        change == FrontCount(out) - FrontCount(base)
        differ == {i \in 1..Len(out) : out[i] # base[i]}
    IN /\ PopCount(out) = PopCount(base)
       /\ Cardinality(differ) = 2 * Abs(change)
       /\ change >= 0 => /\ FrontHits(base) \subseteq FrontHits(out)
                         /\ BackHits(out) \subseteq BackHits(base)
       /\ change <= 0 => /\ BackHits(base) \subseteq BackHits(out)
                         /\ FrontHits(out) \subseteq FrontHits(base)

\* 16 steps, 8 hits, bias 0.25: two hits left the back half for the front
\* half and four positions differ from the base pattern
C28_Witness ==
  /\ Unrotated
  /\ euclid.params.steps = 16 /\ euclid.params.hits = 8
  /\ euclid.params.bias = [num |-> 1, den |-> 4]
  /\ FrontCount(euclid.out) - FrontCount(BaseOf(euclid.params)) = 2
  /\ Cardinality({i \in 1..16 : euclid.out[i] # BaseOf(euclid.params)[i]}) = 4

\* the halves of a call whose front half changed its hit count by `change`:
\* the source half loses hits, the destination half gains them
Halves(params, change) ==
  LET n == params.steps
      half == n \div 2
  IN IF change < 0
     THEN [sourceStart |-> 0, sourceLen |-> half, destStart |-> half, destLen |-> n - half]
     ELSE [sourceStart |-> half, sourceLen |-> n - half, destStart |-> 0, destLen |-> half]

\* the array after the first k passes of the loop
AfterMoves(params, h, k) ==
  moveLoop(basePattern(params.steps, params.hits), k,
           h.sourceStart, h.sourceLen, h.destStart, h.destLen)

\* the distance from index i to the nearest other true position among the
\* len indices from start on; len when there is none
NearestOther(arr, i, start, len) ==
  LET others == {j \in start..(start + len - 1) : j # i /\ arr[j + 1] = 1}
  IN IF others = {} THEN len
     ELSE CHOOSE d \in 1..len :
            /\ \E j \in others : Abs(j - i) = d
            /\ \A j \in others : Abs(j - i) >= d

\* C29: the passes of the loop lead from the base pattern to the
\* bias-adjusted one, and the position each pass clears is a true position
\* of the source half that no other true position of that half beats: none
\* is nearer to its nearest other true position of the half (a hit alone in
\* the half counting as half-length away), and none equally near has a
\* lower index.
C29_RemovesMostCrowded ==
  Unrotated =>
    LET p == euclid.params
        change == FrontCount(euclid.out) - FrontCount(BaseOf(p))
        h == Halves(p, change)
        source == h.sourceStart..(h.sourceStart + h.sourceLen - 1)
        score(arr, i) == NearestOther(arr, i, h.sourceStart, h.sourceLen)
        cleared(now, next) ==
          LET gone == {i \in source : now[i + 1] = 1 /\ next[i + 1] = 0} IN
          /\ Cardinality(gone) = 1
          /\ \A r \in gone : \A j \in source :
               (now[j + 1] = 1 /\ j # r) =>
                 \/ score(now, r) < score(now, j)
                 \/ (score(now, r) = score(now, j) /\ r < j)
    IN /\ \A i \in 1..p.steps : euclid.out[i] = (AfterMoves(p, h, Abs(change))[i] = 1)
       /\ \A k \in 0..(Abs(change) - 1) :
            cleared(AfterMoves(p, h, k), AfterMoves(p, h, k + 1))

\* 16 steps, 12 hits, bias 1: the 6 front hits sit at 0, 2, 3, 4, 6, 7 and
\* the back half has room for two more; index 2, the lowest of the hits one
\* step from a neighbour, was cleared first and then index 3, and index 0,
\* two steps from its neighbour, was kept
C29_Witness ==
  /\ Unrotated
  /\ euclid.params.steps = 16 /\ euclid.params.hits = 12
  /\ euclid.params.bias = [num |-> 1, den |-> 1]
  /\ FrontHits(BaseOf(euclid.params)) = {0, 2, 3, 4, 6, 7}
  /\ FrontHits(euclid.out) = {0, 4, 6, 7}

\* C30: the position each pass of the loop sets is a false position of the
\* destination half, in the array as the earlier passes left it, that no
\* other false position of that half beats: none is farther from the
\* nearest true position of the half (every position of a half without
\* hits counting as half-length away), and none equally far has a lower
\* index.
C30_FillsMostOpen ==
  Unrotated =>
    LET p == euclid.params
        change == FrontCount(euclid.out) - FrontCount(BaseOf(p))
        h == Halves(p, change)
        dest == h.destStart..(h.destStart + h.destLen - 1)
        score(arr, i) == NearestOther(arr, i, h.destStart, h.destLen)
        filled(now, next) ==
          LET new == {i \in dest : now[i + 1] = 0 /\ next[i + 1] = 1} IN
          /\ Cardinality(new) = 1
          /\ \A a \in new : \A j \in dest :
               (now[j + 1] = 0 /\ j # a) =>
                 \/ score(now, a) > score(now, j)
                 \/ (score(now, a) = score(now, j) /\ a < j)
    IN /\ \A i \in 1..p.steps : euclid.out[i] = (AfterMoves(p, h, Abs(change))[i] = 1)
       /\ \A k \in 0..(Abs(change) - 1) :
            filled(AfterMoves(p, h, k), AfterMoves(p, h, k + 1))

\* 16 steps, 4 hits, bias 0: the front half has hits at 0 and 4; index 7,
\* three steps from the nearest hit, was set first, and then index 2, two
\* steps from a hit: index 6, as far from a hit as index 2 at first, is one
\* step from the hit at 7 once that is set
C30_Witness ==
  /\ Unrotated
  /\ euclid.params.steps = 16 /\ euclid.params.hits = 4
  /\ euclid.params.bias = [num |-> 0, den |-> 1]
  /\ FrontHits(BaseOf(euclid.params)) = {0, 4}
  /\ FrontHits(euclid.out) = {0, 2, 4, 7}

\* the pattern of a call before step 3: the base pattern, bias-adjusted
\* unless the bias is 0.5
BiasedOf(params) ==
  LET base == basePattern(params.steps, params.hits)
      biased == IF params.bias # Neutral
                THEN applyHalfBias01(base, params.bias) ELSE base
  IN [i \in 1..params.steps |-> biased[i] = 1]

\* C31: rotate by any amount r, positive, zero or negative, puts the entry
\* of index i at index (i + r) mod n for every i; rotate by -k gives what
\* rotate by n - (k mod n) gives; and for valid params the generated
\* pattern has at index (i + rotation) mod steps the entry the bias step
\* left at index i.
C31_RotationMovesEntries ==
  /\ (rot.called /\ Len(rot.amounts) = 1) =>
       LET n == Len(rot.p)
           r == rot.amounts[1]
       IN /\ Len(rot.out) = n
          /\ \A i \in 0..(n - 1) : rot.out[((i + r) % n) + 1] = rot.p[i + 1]
          /\ r < 0 => rot.out = rotate(rot.p, n - ((-r) % n))
  /\ (euclid.called /\ ValidParams(euclid.params)) =>
       LET p == euclid.params IN
       /\ Len(euclid.out) = p.steps
       /\ \E biased \in {BiasedOf(p)} :
            \A i \in 0..(p.steps - 1) :
              euclid.out[((i + p.rotation) % p.steps) + 1] = biased[i + 1]

\* 16 steps, 4 hits, bias 0, rotation -3: the bias step left the hits at
\* 0, 2, 4 and 7, and the pattern has them at 13, 15, 1 and 4
C31_Witness ==
  /\ euclid.called
  /\ euclid.params = [steps |-> 16, hits |-> 4, bias |-> [num |-> 0, den |-> 1],
                      rotation |-> -3]
  /\ HitSet(BiasedOf(euclid.params)) = {0, 2, 4, 7}
  /\ HitSet(euclid.out) = {1, 4, 13, 15}

(***************************************************************************)
(* Properties of the scheduler (checked under Spec).                       *)
(***************************************************************************)
\* the step events since the last start that the history keeps: the last one
\* before the latest loop run, then those of that run
Chain == prevEv.ev \o tickLog

\* a loop run that was invoked late: its first step was already due
LateRun == tickLog # <<>> /\ tickLog[1].time < tickLog[1].now

\* C1: the trigger time passed to the sink for a step event is never smaller
\* than that of a step event fired before it since the last start.
C1_NonDecreasingTimes ==
  \A i \in 1..(Len(Chain) - 1) : Chain[i].t <= Chain[i + 1].t

\* a late tick after an earlier one: its events and the last event before it
\* call the sink
C1_Witness ==
  /\ LateRun
  /\ prevEv.ev # <<>>
  /\ Len(tickLog) >= 3
  /\ \A i \in 1..Len(Chain) : Chain[i].trig # <<>>

\* C2: with cycleLength unchanged, consecutive step events between a start
\* and the next stop have consecutive indices modulo cycleLength, however
\* late the tick.
C2_NoStepSkipped ==
  /\ \A i \in 1..(Len(tickLog) - 1) :
       tickLog[i + 1].step = (tickLog[i].step + 1) % tickLog[i].cyc
  /\ (prevEv.ev # <<>> /\ tickLog # <<>> /\ ~prevEv.gap)
       => tickLog[1].step = (prevEv.ev[1].step + 1) % prevEv.ev[1].cyc

\* a late tick fires four steps in one call, passing the end of the cycle
C2_Witness ==
  /\ LateRun
  /\ prevEv.ev # <<>> /\ ~prevEv.gap
  /\ Len(tickLog) >= 4
  /\ \E i \in 1..(Len(tickLog) - 1) :
       tickLog[i].step = tickLog[i].cyc - 1 /\ tickLog[i + 1].step = 0

\* C3 as stated: every event of a late tick that fires several events is
\* delivered with its originally intended time.
C3_IntendedTimes ==
  (LateRun /\ Len(tickLog) >= 2)
  => \A i \in 1..Len(tickLog) : tickLog[i].t = tickLog[i].time

\* C3 amended: the intended times of consecutive step events are spaced by
\* the step interval, and each event is delivered at the later of its
\* intended time and Tone.now() + 0.001: the events of one call that are due
\* before that share one delivery time, the later ones keep theirs.
C3_ClampedIntendedTimes ==
  /\ \A i \in 1..(Len(Chain) - 1) :
       Chain[i + 1].time = Chain[i].time + stepInterval(Chain[i].step, Chain[i])
  /\ \A i \in 1..Len(tickLog) :
       LET e == tickLog[i] IN
       /\ e.time >= e.now + epsilon => e.t = e.time
       /\ e.time < e.now + epsilon => e.t = e.now + epsilon

\* a late tick with two events already due and two still ahead, all of them
\* calling the sink
C3_Witness ==
  /\ LateRun
  /\ Len(tickLog) >= 4
  /\ tickLog[2].time < tickLog[2].now /\ tickLog[1].t = tickLog[2].t
  /\ tickLog[4].time > tickLog[3].time /\ tickLog[3].time > tickLog[3].now + epsilon
  /\ \A i \in 1..4 : tickLog[i].trig # <<>>

\* C4: every trigger call carries max(scheduledTime, clock.now() + epsilon),
\* a time strictly after the clock reading at the call.
C4_NeverInThePast ==
  \A i \in 1..Len(tickLog) :
    LET e == tickLog[i] IN
    e.trig # <<>> => (e.t = Max(e.time, e.now + epsilon) /\ e.t > e.now)

\* a trigger call for a step that was due before the tick ran
C4_Witness ==
  \E i \in 1..Len(tickLog) :
    /\ tickLog[i].trig # <<>>
    /\ tickLog[i].time < tickLog[i].now
    /\ tickLog[i].t = tickLog[i].now + epsilon

(***************************************************************************)
(* Properties of the cycle alignment (checked under SpecCycle).            *)
(***************************************************************************)
\* C11: calculateCycleLength returns the least common multiple of the
\* positive track step counts and the step count implied by the signature,
\* the implied count alone when there are no tracks; six tracks of 16 steps
\* in "4/4" give 16 and tracks {16, 8} in "3/4" give 48.
C11_CycleIsLcm ==
  (cycle.called /\ cycle.fn = "calculateCycleLength") =>
    LET implied == IF cycle.kind = "N/D" /\ cycle.d > 0
                   THEN Max(1, cycle.n * Max(1, 16 \div cycle.d)) ELSE 16
        lengths == {cycle.steps[i] : i \in 1..Len(cycle.steps)}
        positive == {l \in lengths : l > 0} \cup {implied}
        common == {m \in 1..(16 * 3 * 5 * 7) : \A l \in positive : m % l = 0}
    IN /\ cycle.out \in common
       /\ \A m \in common : cycle.out <= m
       /\ cycle.steps = <<>> => cycle.out = implied
       /\ (cycle.steps = SixSixteens /\ cycle.n = 4 /\ cycle.d = 4 /\ cycle.kind = "N/D")
            => cycle.out = 16
       /\ (cycle.steps = <<16, 8>> /\ cycle.n = 3 /\ cycle.d = 4 /\ cycle.kind = "N/D")
            => cycle.out = 48

\* tracks {16, 8} in "3/4": the cycle is 48 steps
C11_Witness ==
  /\ cycle.called /\ cycle.fn = "calculateCycleLength"
  /\ cycle.steps = <<16, 8>> /\ cycle.kind = "N/D" /\ cycle.n = 3 /\ cycle.d = 4
  /\ cycle.out = 48

\* C12: the step count implied by a signature "N/D" is
\* max(1, N * max(1, floor(16 / D))); when the text cannot be parsed (parseInt
\* finds no number in the text before or after the "/") or D = 0, the implied
\* count is 16; the implied count and the cycle length are positive integers.
\* parseInt skips blanks before a number and whatever follows its digits, so
\* such texts are read as N/D.
C12_ImpliedSteps ==
  /\ (cycle.called /\ cycle.fn = "timeSignatureToSteps") =>
       LET read == cycle.kind \in {"N/D", " N/D", "Nx/D", "N/Dx", "N/D/N"}
           floor16 == IF cycle.d > 0 THEN 16 \div cycle.d
                      ELSE -((16 + (-cycle.d) - 1) \div (-cycle.d))
       IN /\ cycle.out >= 1
          /\ IF read /\ cycle.d # 0
             THEN cycle.out = Max(1, cycle.n * Max(1, floor16))
             ELSE cycle.out = 16
  /\ (cycle.called /\ cycle.fn = "calculateCycleLength") => cycle.out >= 1

\* a denominator that is not a number: the implied count is 16
C12_Witness ==
  /\ cycle.called /\ cycle.fn = "timeSignatureToSteps"
  /\ cycle.kind = "N/x" /\ cycle.n = 3
  /\ cycle.out = 16

(***************************************************************************)
(* Properties of the running scheduler, continued (checked under Spec).    *)
(***************************************************************************)
\* C13: in every reachable state cycleLength >= 1 and both the step index
\* and the reported current step lie in 0..cycleLength-1; a step that changes
\* the cycle length (a render after an edit of a track's steps or of the
\* time signature) leaves the step index at its old value modulo the new
\* cycle length, unless the same render stops the scheduler.
C13_StepWithinCycle ==
  /\ [](/\ cycleLengthRef >= 1
        /\ 0 <= currentStepRef /\ currentStepRef < cycleLengthRef
        /\ 0 <= currentStep /\ currentStep < cycleLengthRef)
  /\ [][cycleLengthRef' # cycleLengthRef =>
          \/ isPlayingRef /\ ~isPlayingRef'
          \/ /\ currentStepRef' = currentStepRef % cycleLengthRef'
             /\ currentStep' = currentStep % cycleLengthRef']_vars

\* the scheduler is running at step 2 of a 4-step cycle when the cycle
\* shrinks to 2 steps
C13_Witness ==
  /\ isPlayingRef /\ cycChanged
  /\ tickLog # <<>>
  /\ tickLog[Len(tickLog)].cyc = 4 /\ tickLog[Len(tickLog)].step = 1
  /\ cycleLengthRef = 2
  /\ currentStepRef = 0

\* C14 as stated: the interval added after firing step k is selected by the
\* parity of the new index k' = (k + 1) mod cycleLength: base * (1 + swingRatio)
\* when k' is even, base * (1 - swingRatio) when k' is odd.
C14_ParityOfNewIndex ==
  \A i \in 1..(Len(Chain) - 1) :
    LET base == (Minute \div Max(40, Min(300, Chain[i].bpm))) \div 4
        ratio == 3 * Max(0, Min(100, Chain[i].swing))
    IN Chain[i + 1].time - Chain[i].time =
         IF Chain[i + 1].step % 2 = 0 THEN (base * (1000 + ratio)) \div 1000
                                      ELSE (base * (1000 - ratio)) \div 1000

\* C14: the interval added to nextEventTime after firing step k is selected
\* by the parity of k, the index that was just fired: base * (1 + swingRatio)
\* when k is even, base * (1 - swingRatio) when k is odd; the index then
\* advances to (k + 1) mod cycleLength.
C14_ParityOfFiredIndex ==
  \A i \in 1..(Len(Chain) - 1) :
    LET base == (Minute \div Max(40, Min(300, Chain[i].bpm))) \div 4
        ratio == 3 * Max(0, Min(100, Chain[i].swing))
    IN Chain[i + 1].time - Chain[i].time =
         IF Chain[i].step % 2 = 0 THEN (base * (1000 + ratio)) \div 1000
                                  ELSE (base * (1000 - ratio)) \div 1000

\* with full swing at 300 bpm, an even step is followed 65 ms later by an
\* odd one
C14_Witness ==
  \E i \in 1..(Len(Chain) - 1) :
    /\ Chain[i].swing = 100 /\ Chain[i].bpm = 300
    /\ Chain[i].step % 2 = 0 /\ Chain[i + 1].step % 2 = 1
    /\ Chain[i + 1].time - Chain[i].time = 65000

\* C16: after bpm or swing is changed while the scheduler is running, with
\* no stop or start, every interval a tick adds to nextEventTime is computed
\* from the new values: the events a tick fires are spaced by
\* base * (1 + swingRatio) or base * (1 - swingRatio) of the transport's
\* bpm and swing at the time of the tick.
C16_LiveTempo ==
  [][(starts' = starts /\ isPlayingRef /\ tickLog' # tickLog) =>
       \A i \in 1..(Len(tickLog') - 1) :
         LET base == (Minute \div Max(40, Min(300, props.bpm))) \div 4
             delta == (base * 3 * Max(0, Min(100, props.swing))) \div 1000
         IN tickLog'[i + 1].time - tickLog'[i].time \in {base + delta, base - delta}]_vars

\* C17: a change of the track configuration made between two ticks while
\* the scheduler is running is visible to the next tick: every step event a
\* tick fires is decided from the tracks as they are at that tick, the same
\* tracks for all events of the tick.
C17_LiveTracks ==
  [][(starts' = starts /\ isPlayingRef /\ tickLog' # tickLog) =>
       \A i \in 1..Len(tickLog') :
         {tickLog'[i].trig[c] : c \in 1..Len(tickLog'[i].trig)} =
           {[id |-> props.tracks[k].id,
             volume |-> [num |-> props.tracks[k].volume, den |-> 100]] :
              k \in {j \in 1..Len(props.tracks) :
                       /\ ~props.tracks[j].muted
                       /\ props.tracks[j].pattern[(tickLog'[i].step % props.tracks[j].steps) + 1]
                       /\ \/ \A m \in 1..Len(props.tracks) : ~props.tracks[m].solo
                          \/ props.tracks[j].solo}}]_vars

\* C19: in every reachable state a call of stop cancels the pending tick
\* callback (the one the scheduler holds; none stays pending when it is the
\* only one), sets the step index and the reported step to 0 and leaves the
\* scheduler stopped; a second stop, or a stop of a stopped scheduler,
\* changes nothing.
C19_StopIdempotent ==
  LET h == stopAudio(Hook) IN
  /\ ~h.isPlayingRef
  /\ h.currentStepRef = 0 /\ h.currentStep = 0
  /\ \A k \in 1..Len(h.timers) : ~h.timers[k].tracked
  /\ (\A k \in 1..Len(timers) : timers[k].tracked) => h.timers = <<>>
  /\ stopAudio(h) = h
  /\ ~isPlayingRef => h = Hook

\* the transport was switched off after steps 0 and 1 were scheduled: the
\* timer is gone and the step index is 0 again
C19_Witness ==
  /\ ~props.isPlaying /\ ~isPlayingRef
  /\ Len(tickLog) = 2 /\ tickLog[2].step = 1
  /\ timers = <<>> /\ starts = <<>>
  /\ timerIdRef = "null"
  /\ currentStepRef = 0 /\ currentStep = 0

\* C20: a call of start while the scheduler is running is a no-op: the
\* step index, nextEventTime and the pending tick callback stay as they are
\* and no further tick chain is begun; so a render that calls start on a
\* running scheduler changes none of them (the step index only by the cycle
\* alignment).
C20_StartWhileRunning ==
  /\ [](isPlayingRef => startAudio(Hook, props) = Hook)
  /\ [][(isPlayingRef /\ props'.isPlaying /\ props' # props) =>
          /\ nextTimeRef' = nextTimeRef
          /\ timers' = timers
          /\ starts' = starts
          /\ isPlayingRef'
          /\ currentStepRef' = currentStepRef % cycleLengthRef']_vars

\* the time signature was changed while the scheduler was running at step 2:
\* the render called start, and there is still one timer, no start in
\* flight, and the step index and nextEventTime of before
C20_Witness ==
  /\ isPlayingRef /\ props.isPlaying /\ cycChanged
  /\ cycleLengthRef = 16
  /\ Len(timers) = 1 /\ starts = <<>>
  /\ Len(tickLog) = 2 /\ tickLog[2].step = 1 /\ tickLog[2].time = 65000
  /\ currentStepRef = 2 /\ nextTimeRef = 100000

\* C21: when a start takes the scheduler from stopped to playing, the first
\* step event it fires is for step 0 and carries the clock reading of that
\* moment as its time (nextEventTime was anchored to it); the step index of
\* a stopped scheduler is 0; and whenever a start completes, the step index
\* it leaves is within 0..cycleLength-1.
C21_StartFromStopped ==
  /\ [](~isPlayingRef => currentStepRef = 0)
  /\ [][/\ (~isPlayingRef /\ isPlayingRef') =>
            /\ tickLog' # <<>>
            /\ tickLog'[1].step = 0
            /\ tickLog'[1].time = clock
            /\ tickLog'[1].now = clock
        /\ (isPlayingRef' /\ Len(starts') < Len(starts)) =>
            currentStepRef' \in 0..(cycleLengthRef' - 1)]_vars

\* a start completed when the clock had passed the first scheduling window:
\* it fired step 0 first, at the clock reading of that moment, and filled
\* the window from there
C21_Witness ==
  /\ isPlayingRef /\ props.isPlaying /\ clock > ahead
  /\ prevEv.ev = <<>>
  /\ tickLog # <<>>
  /\ tickLog[1].step = 0 /\ tickLog[1].time = clock /\ tickLog[1].now = clock
  /\ nextTimeRef >= clock + ahead

\* the state of the scheduler: Running while isPlayingRef is set, Starting
\* while a startAudio awaits Tone.start(), Stopped otherwise
phase ==
  IF isPlayingRef THEN "Running"
  ELSE IF starts # <<>> THEN "Starting" ELSE "Stopped"

C15_ClampedInterval ==
  interval.called =>
    LET bpm == IF interval.bpm < 40 THEN 40
               ELSE IF interval.bpm > 300 THEN 300 ELSE interval.bpm
        percent == IF interval.swing < 0 THEN 0
                   ELSE IF interval.swing > 100 THEN 100 ELSE interval.swing
        base == 60000000 \div (4 * bpm)
        delta == (base * 30 * percent) \div 10000
    IN /\ interval.out \in {base + delta, base - delta}
       /\ interval.out > 0
       /\ (interval.bpm = 120 /\ interval.swing = 100) =>
            /\ base = 125000
            /\ interval.out = IF interval.step % 2 = 0 THEN 162500 ELSE 87500

\* a tempo and a swing above their ranges: the interval of an odd step is
\* that of 300 bpm with full swing
C15_Witness ==
  /\ interval.called
  /\ interval.bpm = 600 /\ interval.swing = 250 /\ interval.step = 1
  /\ interval.out = 35000

(***************************************************************************)
(* Properties of schedule (checked under SpecSchedule).                    *)
(***************************************************************************)
\* C18: at a step event with index s a track is triggered exactly when it
\* is not muted, pattern[s mod track.steps] is true, and no track is soloed
\* or this track is; a triggered track gets exactly one trigger call, with
\* velocity track.volume / 100, and a muted track is never triggered, soloed
\* or not.
C18_TriggerDecision ==
  (scheduled.called /\ scheduled.sink) =>
    LET tracks == scheduled.tracks
        calls == scheduled.calls
        noSolo == \A k \in 1..Len(tracks) : ~tracks[k].solo
        callsOf(k) == {c \in 1..Len(calls) : calls[c].id = tracks[k].id}
        should(k) == /\ ~tracks[k].muted
                     /\ tracks[k].pattern[(scheduled.step % tracks[k].steps) + 1]
                     /\ (noSolo \/ tracks[k].solo)
    IN /\ \A k \in 1..Len(tracks) :
            /\ should(k) =>
                 /\ Cardinality(callsOf(k)) = 1
                 /\ \A c \in callsOf(k) :
                      calls[c].volume = [num |-> tracks[k].volume, den |-> 100]
            /\ ~should(k) => callsOf(k) = {}
            /\ tracks[k].muted => callsOf(k) = {}
       /\ \A c \in 1..Len(calls) : \E k \in 1..Len(tracks) : c \in callsOf(k)

\* the snare is muted and soloed, the kick neither: at step 5 the snare's
\* pattern is true, and no track is triggered
C18_Witness ==
  /\ scheduled.called /\ scheduled.sink
  /\ scheduled.step = 5
  /\ scheduled.tracks[2].muted /\ scheduled.tracks[2].solo
  /\ scheduled.tracks[2].pattern[2]
  /\ ~scheduled.tracks[1].muted /\ ~scheduled.tracks[1].solo
  /\ ~scheduled.tracks[3].solo
  /\ scheduled.calls = <<>>

(***************************************************************************)
(* Properties of the DrumMachine (checked under SpecSink).                 *)
(***************************************************************************)
\* the ways of passing an optional argument drawn from a set
Optional(values) == {<<>>} \cup {<<v>> : v \in values}

\* C23: in every reachable state of the machine a trigger call for an id it
\* does not know returns the machine as it was (no triggerAttackRelease on
\* any synth, the gains, their automation, the last trigger times and the
\* master gain unchanged), whatever volume and time are given or omitted;
\* and every such call made leaves the machine unchanged.
C23_UnknownTrackNoOp ==
  /\ [](machine.made =>
          \A volume \in Optional(HitVolumes), time \in Optional(TriggerTimes),
             now \in TriggerTimes :
            trigger(machine.sink, "unknown", volume, time, now) = machine.sink)
  /\ [][(machine'.calls # machine.calls /\ machine'.last.op = "trigger"
            /\ machine'.last.drumType \notin DrumTypes)
          => machine'.sink = machine.sink]_vars

\* an unknown id was triggered after a kick: the machine still holds the
\* kick's single call and last trigger time and nothing else
C23_Witness ==
  /\ machine.calls = 2
  /\ machine.last.op = "trigger" /\ machine.last.drumType = "unknown"
  /\ Len(machine.sink.players["kick"]) = 1
  /\ DOMAIN machine.sink.lastTriggerTimes = {"kick"}
  /\ \A d \in DrumTypes \ {"kick"} : machine.sink.players[d] = <<>>

(***************************************************************************)
(* Properties of loop (checked under SpecLoop).                            *)
(***************************************************************************)
\* C24: a run of the loop without a DrumMachine makes no trigger call in
\* any of its schedule calls, and leaves the step index and nextEventTime,
\* and fires the steps at the times, that the same run makes with a
\* DrumMachine.
C24_DroppedTriggers ==
  (looped.called /\ ~looped.sink) =>
    LET with == loopRun(looped.step, looped.next, looped.cl, looped.cyc,
                        looped.now, TRUE)
        out == looped.out
    IN /\ \A k \in 1..Len(out.log) : out.log[k].trig = <<>>
       /\ out.step = with.step
       /\ out.next = with.next
       /\ Len(out.log) = Len(with.log)
       /\ \A k \in 1..Len(out.log) :
            /\ out.log[k].step = with.log[k].step
            /\ out.log[k].time = with.log[k].time
            /\ out.log[k].t = with.log[k].t

\* a late run without a DrumMachine fired several steps, among them one on
\* which a track plays, and advanced the step index and nextEventTime
C24_Witness ==
  /\ looped.called /\ ~looped.sink
  /\ looped.next < looped.now
  /\ Len(looped.out.log) >= 3
  /\ looped.out.next >= looped.now + ahead
  /\ \E k \in 1..Len(looped.out.log) :
       triggerCalls(looped.out.log[k].step, looped.cl.tracks, TRUE) # <<>>

\* the time a trigger call asked for
requestedTime(input) == IF input.time = <<>> THEN input.now ELSE input.time[1]

\* C25: the times of the triggerAttackRelease calls made on each synth are
\* strictly increasing, and the last trigger time kept for a drum is the
\* time of the latest of them; a hit whose requested time is not later than
\* the drum's last trigger time is played 0.0001 s after it, any other hit at
\* the requested time.
C25_MonotonicTriggerTimes ==
  /\ [](\A d \in (IF machine.made THEN DOMAIN machine.sink.players ELSE {}) :
          LET calls == machine.sink.players[d] IN
          /\ \A k \in 1..(Len(calls) - 1) : calls[k].time < calls[k + 1].time
          /\ calls # <<>> <=> d \in DOMAIN machine.sink.lastTriggerTimes
          /\ calls # <<>> => machine.sink.lastTriggerTimes[d] = calls[Len(calls)].time)
  /\ [][(machine'.calls # machine.calls /\ machine'.last.op = "trigger"
            /\ machine'.last.drumType \in DOMAIN machine.sink.players) =>
          LET d == machine'.last.drumType
              before == machine.sink.players[d]
              after == machine'.sink.players[d]
              last == machine.sink.lastTriggerTimes
          IN /\ Len(after) > Len(before)
             /\ after[Len(before) + 1].time =
                  IF d \in DOMAIN last /\ requestedTime(machine'.last) <= last[d]
                  THEN last[d] + minGap ELSE requestedTime(machine'.last)]_vars

\* a clap was requested at 0.01 s after a clap at 0.01 s, whose bursts end at
\* 0.03 s: its bursts are at 0.0301 s, 0.0401 s and 0.0501 s
C25_Witness ==
  /\ machine.calls = 2
  /\ machine.last.op = "trigger" /\ machine.last.drumType = "clap"
  /\ requestedTime(machine.last) = 10000
  /\ Len(machine.sink.players["clap"]) = 6
  /\ [k \in 1..6 |-> machine.sink.players["clap"][k].time]
       = <<10000, 20000, 30000, 30100, 40100, 50100>>

\* a volume in hundredths brought into 0..1
clampVolume(volume) ==
  IF volume < 0 THEN 0 ELSE IF volume > 100 THEN 100 ELSE volume

\* C26: every trigger call for a known drum, whatever its volume (the
\* default 0.8 when omitted), sets that drum's gain to
\* baseGain * clamp(volume, 0, 1) at the time the hit is played and back to
\* baseGain 0.1 s later, these being the last two automation events of the
\* gain; every setMasterVolume call sets the master gain to
\* clamp(volume, 0, 1); both calls are made in every state the machine
\* reaches and always return a machine.
C26_VolumesClamped ==
  [][/\ (machine'.calls # machine.calls /\ machine'.last.op = "trigger"
            /\ machine'.last.drumType \in DOMAIN machine.sink.players) =>
          LET d == machine'.last.drumType
              given == IF machine'.last.volume = <<>> THEN 80
                       ELSE machine'.last.volume[1]
              events == machine'.sink.gains[d].events
              played == machine'.sink.players[d][Len(machine.sink.players[d]) + 1].time
          IN /\ Len(events) >= 2
             /\ events[Len(events) - 1] =
                  [value |-> (initialGain(d) * clampVolume(given)) \div 100,
                   time |-> played]
             /\ events[Len(events)] =
                  [value |-> initialGain(d), time |-> played + resetDelay]
             /\ machine'.sink.gains[d].value = machine.sink.gains[d].value
             /\ machine'.sink.masterGain = machine.sink.masterGain
     /\ (machine'.calls # machine.calls /\ machine'.last.op = "setMasterVolume") =>
          /\ machine'.sink.masterGain = clampVolume(machine'.last.volume) * 1000
          /\ machine'.sink.gains = machine.sink.gains]_vars

\* the master volume was set to 1.5 and a kick triggered with volume 1.5:
\* the master gain is 1 and the kick's gain 0.9 at the hit
C26_Witness ==
  /\ machine.calls = 2
  /\ machine.sink.masterGain = 100000
  /\ machine.last.op = "trigger" /\ machine.last.drumType = "kick"
  /\ machine.last.volume = <<150>> /\ machine.last.time = <<10000>>
  /\ machine.sink.gains["kick"].events
       = <<[value |-> 90000, time |-> 10000], [value |-> 90000, time |-> 110000]>>

\* the hits of the front half and of the back half of a 0/1 array
FrontOf(arr) == countHits(arr, 0, Len(arr) \div 2)
BackOf(arr) == countHits(arr, Len(arr) \div 2, Len(arr) - Len(arr) \div 2)

\* C32: for every base pattern and bias, the center-placement variant and
\* the minimal-move variant give patterns of the same length with equally
\* many hits in the front half and equally many in the back half, the two
\* counts adding up to the hits of the base pattern.
C32_VariantsAgreeOnHalves ==
  halfBias.called =>
    /\ Len(halfBias.center) = Len(halfBias.minimal)
    /\ FrontOf(halfBias.center) = FrontOf(halfBias.minimal)
    /\ BackOf(halfBias.center) = BackOf(halfBias.minimal)
    /\ FrontOf(halfBias.center) + BackOf(halfBias.center) =
         countHits(halfBias.arr, 0, Len(halfBias.arr))
    /\ FrontOf(halfBias.minimal) + BackOf(halfBias.minimal) =
         countHits(halfBias.arr, 0, Len(halfBias.arr))

\* 5 hits in 16 steps at bias 3/4: both variants put 1 hit in the front half
\* and 4 in the back half, on different positions
C32_Witness ==
  /\ halfBias.called
  /\ Len(halfBias.arr) = 16
  /\ countHits(halfBias.arr, 0, 16) = 5
  /\ halfBias.bias = [num |-> 3, den |-> 4]
  /\ halfBias.center # halfBias.minimal
  /\ FrontOf(halfBias.center) = 1
  /\ FrontOf(halfBias.minimal) = 1

\* a step of a timer callback that found the scheduler running and left
\* it so: no render (props), no start resolving, no clock step
TickReturned ==
  /\ isPlayingRef /\ isPlayingRef'
  /\ starts' = starts /\ props' = props /\ clock' = clock

\* C33: when a tick returns while the scheduler is running, the next event
\* time is at least the clock plus the lookahead window, and exactly one
\* tick callback is pending, set one lookahead interval ahead.
C33_TickPostcondition ==
  [][TickReturned =>
       /\ nextTimeRef' >= clock + ahead
       /\ Len(timers') = 1
       /\ timers'[1].delay = lookahead]_vars

\* the times at which nextTimeRef stood during a run of loop: those of the
\* events fired, then the one the run ended on
LoopTimes(r) == [k \in 1..Len(r.log) |-> r.log[k].time] \o <<r.next>>

\* base of nextStep for the closure's tempo
baseDuration(cl) == (Minute \div Max(40, Min(300, cl.bpm))) \div 4

\* C34: a run of the catch-up loop ends: whatever the tempo, the swing and
\* the lateness, every interval added to the next event time is at least
\* 0.7 * base, and base is at least that of 300 bpm, so the run fires no
\* more events than such intervals fit between the next event time it
\* started from and the end of the window, and it ends with the next event
\* time at or beyond the window.
C34_TickTerminates ==
  looped.called =>
    LET times == LoopTimes(looped.out)
        base == baseDuration(looped.cl)
        least == ((Minute \div 300) \div 4) * 7
    IN /\ base >= (Minute \div 300) \div 4
       /\ \A k \in 1..(Len(times) - 1) :
            /\ 10 * (times[k + 1] - times[k]) >= 7 * base
            /\ times[k + 1] > times[k]
       /\ looped.out.next >= looped.now + ahead
       /\ looped.next >= looped.now + ahead => looped.out.log = <<>>
       /\ looped.next < looped.now + ahead =>
            (Len(looped.out.log) - 1) * least
              < 10 * (looped.now + ahead - looped.next)

\* a run two windows late at 600 bpm (kept to 300) and swing 250 (kept to
\* 100): six events, 65 ms and 35 ms apart, then the loop ends
C34_Witness ==
  /\ looped.called
  /\ looped.cl.bpm = 600 /\ looped.cl.swing = 250
  /\ looped.step = 0
  /\ looped.next = looped.now - 2 * ahead
  /\ Len(looped.out.log) = 6
  /\ looped.out.log[2].time - looped.out.log[1].time = 65000
  /\ looped.out.log[3].time - looped.out.log[2].time = 35000
  /\ looped.out.next = looped.now + ahead

\* C35: at most one tick callback is pending at any time, also when start
\* was invoked again while an earlier start was awaiting the activation of
\* the audio context, and a stop leaves no tick callback pending.
C35_SingleTickCallback ==
  [][/\ Len(timers') <= 1
     /\ (props.isPlaying /\ ~props'.isPlaying) => timers' = <<>>]_vars

\* C36: the playing state follows the most recent request: when the last
\* request was a stop and no start is awaiting the activation of the audio
\* context any more, the scheduler is stopped with step index 0, and while
\* the last request is a stop no step event is fired.
C36_FollowsLastRequest ==
  [][/\ (~props'.isPlaying /\ starts' = <<>>) =>
          (~isPlayingRef' /\ currentStepRef' = 0)
     /\ (~props.isPlaying /\ ~props'.isPlaying) => tickLog' = tickLog]_vars

\* stepInPattern of schedule
stepInPattern(step, steps) == step % steps

\* C37: the cycle length calculateCycleLength returns is a multiple of the
\* step count of every track with positive steps, so from the last step of
\* the cycle to step 0 the position in every such track's pattern goes from
\* steps - 1 to 0, and the pattern is played cycleLength / steps whole times
\* in the cycle.
C37_PatternsRepeatWhole ==
  (cycle.called /\ cycle.fn = "calculateCycleLength") =>
    \A i \in 1..Len(cycle.steps) :
      cycle.steps[i] > 0 =>
        /\ cycle.out % cycle.steps[i] = 0
        /\ stepInPattern(cycle.out - 1, cycle.steps[i]) = cycle.steps[i] - 1
        /\ stepInPattern((cycle.out - 1 + 1) % Max(1, cycle.out), cycle.steps[i]) = 0
        /\ Cardinality({s \in 0..(cycle.out - 1) :
                          stepInPattern(s, cycle.steps[i]) = 0}) * cycle.steps[i]
             = cycle.out

\* tracks of 3 and 8 steps in "7/8" (14 implied steps): the cycle is 168
\* steps, and at its last step the tracks are at positions 2 and 7
C37_Witness ==
  /\ cycle.called /\ cycle.fn = "calculateCycleLength"
  /\ cycle.steps = <<3, 8>> /\ cycle.kind = "N/D" /\ cycle.n = 7 /\ cycle.d = 8
  /\ cycle.out = 168
  /\ stepInPattern(cycle.out - 1, 3) = 2
  /\ stepInPattern(cycle.out - 1, 8) = 7

\* cycle lengths calculateCycleLength returns for up to two tracks of 2, 3
\* or 4 steps in the signatures "4/4", "3/16" and "1/16"
AlignerLengths ==
  {calculateCycleLength([i \in 1..Len(steps) |-> [steps |-> steps[i]]],
                        FormatSig("N/D", sig[1], sig[2])) :
     steps \in UNION {[1..k -> {2, 3, 4}] : k \in 0..2},
     sig \in {<<4, 4>>, <<3, 16>>, <<1, 16>>}}

\* C38: with bpm and swing fixed, any two consecutive intervals of a run of
\* the loop add up to exactly 2 * base, the pair across the wrap from the
\* last step of the cycle to step 0 included, for every cycle length the
\* alignment can return.
C38_SwingKeepsTempo ==
  (looped.called /\ looped.cyc \in AlignerLengths) =>
    LET times == LoopTimes(looped.out) IN
    \A k \in 1..(Len(times) - 2) :
      (times[k + 1] - times[k]) + (times[k + 2] - times[k + 1])
        = 2 * baseDuration(looped.cl)

\* C39: after any edits through the control surface every track has
\* 0 <= hits <= steps, and its pattern is generateEuclidPattern of its
\* steps, hits, bias and rotation and has steps entries; an edit of volume,
\* muted or solo (or a reset of the volume) left every pattern as it was.
C39_PatternFollowsParameters ==
  /\ \A i \in 1..Len(panel.tracks) :
       LET track == panel.tracks[i] IN
       /\ 0 <= track.hits /\ track.hits <= track.steps
       /\ track.pattern = generateEuclidPattern(
            [steps |-> track.steps, hits |-> track.hits,
             bias |-> track.bias, rotation |-> track.rotation])
       /\ Len(track.pattern) = track.steps
  /\ \A k \in 1..Len(panel.last) :
       panel.last[k].handler \in {"handleVolumeChange", "handleMuteToggle",
                                   "handleSoloToggle", "resetVolume"} =>
         \A i \in 1..Len(panel.tracks) :
           panel.tracks[i].pattern = panel.last[k].tracks[i].pattern

\* the kick had 3 hits in 3 steps and rotation 3 when its steps were cut to
\* 1: it has 1 hit, rotation 3 still, and the pattern of one hit
C39_Witness ==
  /\ panel.last # <<>>
  /\ panel.last[1].handler = "handleStepsChange"
  /\ panel.last[1].tracks[1].steps = 3
  /\ panel.last[1].tracks[1].hits = 3
  /\ panel.tracks[1].steps = 1
  /\ panel.tracks[1].hits = 1
  /\ panel.tracks[1].rotation = 3
  /\ panel.tracks[1].pattern = <<TRUE>>

\* the step indices of the cycle of InitProps, of four steps
LiveSteps == 0..3

\* the step event of index s was fired at the present reading of the clock
FiredNow(s) ==
  \E k \in 1..Len(tickLog) : tickLog[k].step = s /\ tickLog[k].now = clock

\* C40: with a fair timer and a clock that keeps advancing, a scheduler that
\* stays running fires every step index of its cycle again and again.
C40_KeepsFiring ==
  \A s \in LiveSteps :
    <>[](isPlayingRef /\ s < cycleLengthRef) => []<>FiredNow(s)

\* a tick one window late at 300 bpm: the running scheduler fires steps 2,
\* 3, 0 and 1 at once, the wrap of the four-step cycle included
C40_Witness ==
  /\ isPlayingRef /\ cycleLengthRef = 4
  /\ Len(tickLog) = 4
  /\ tickLog[1].step = 2 /\ tickLog[2].step = 3
  /\ tickLog[3].step = 0 /\ tickLog[4].step = 1
  /\ tickLog[1].time < clock
  /\ \A s \in LiveSteps : FiredNow(s)

====
